---- MODULE Spec2Model ----
(***************************************************************************)
(* Azure DevOps wiki -> Confluence migration (azure-to-confluence).        *)
(* Model of the migrate command: pre-flight authentication, duplicate      *)
(* validation with its persisted queue, and the two-phase publication      *)
(* (placeholder pass, content pass) against a Confluence space.            *)
(* Strings are sequences of one-character strings.                         *)
(***************************************************************************)
EXTENDS Naturals, Integers, Sequences, FiniteSets, TLC

(***************************************************************************)
(* Bounds of the model.                                                    *)
(***************************************************************************)
\* number of pages in the parsed wiki tree
NumPages == 3
\* number of target API / file-system calls that may fail in one run
MaxFailures == 1
\* number of uploadAttachment calls in the upload specification
MaxUploads == 3
\* number of runs of the migrate command over the same wiki
MaxRuns == 2
\* number of entries of the directory the parsers read
NumEntries == 3

\* invocations of an operation handed to retryWithBackoff that can throw
MaxCalls == 5

(***************************************************************************)
(* Strings.                                                                *)
(***************************************************************************)
HexDigits == {"0", "2", "3", "5", "6", "B", "D"}

HexVal(c) ==
  CASE c = "0" -> 0 [] c = "2" -> 2 [] c = "3" -> 3 [] c = "5" -> 5
    [] c = "6" -> 6 [] c = "B" -> 11 [] c = "D" -> 13

\* the character of a code point: those below 0x80 that two model hex
\* digits can spell, and the code points of two-byte sequences
CharOfCode(n) ==
  CASE n = 32 -> " "  [] n = 34 -> "\""  [] n = 37 -> "%"  [] n = 38 -> "&"
    [] n = 43 -> "+"  [] n = 80 -> "P"   [] n = 82 -> "R"  [] n = 85 -> "U"
    [] n = 86 -> "V"  [] n = 91 -> "["   [] n = 96 -> "grave"  [] n = 98 -> "b"
    [] n = 101 -> "e" [] n = 102 -> "f"  [] n = 107 -> "k"
    [] n = 11 -> "VT" [] n = 0 -> "x00"  [] n = 2 -> "x02" [] n = 5 -> "x05"
    [] n = 6 -> "x06" [] n = 3 -> "x03"  [] n = 13 -> "CR" [] n = 35 -> "#"
    [] n = 45 -> "-"  [] n = 48 -> "0"   [] n = 50 -> "2"  [] n = 51 -> "3"
    [] n = 53 -> "5"  [] n = 54 -> "6"   [] n = 59 -> ";"  [] n = 61 -> "="
    [] n = 83 -> "S"  [] n = 93 -> "]"   [] n = 99 -> "c"  [] n = 109 -> "m"
    [] OTHER -> "U+" \o ToString(n)

\* the value of the escape %XX at the head of s, -1 when s does not start
\* with an escape
EscapeAt(s) ==
  IF Len(s) >= 3 /\ s[1] = "%" /\ s[2] \in HexDigits /\ s[3] \in HexDigits
  THEN 16 * HexVal(s[2]) + HexVal(s[3])
  ELSE -1

\* the UTF-8 sequence two successive escapes of values b1 and b2 (-1: no
\* escape) start with: one byte below 0x80, or a lead byte 0xC2..0xDF and a
\* continuation byte 0x80..0xBF; length is the number of characters of
\* the escapes of the sequence, 0 when there is no valid sequence
Utf8Sequence(b1, b2) ==
  IF b1 >= 0 /\ b1 < 128 THEN [length |-> 3, code |-> b1]
  ELSE IF b1 >= 194 /\ b1 <= 223 /\ b2 >= 128 /\ b2 <= 191
       THEN [length |-> 6, code |-> (b1 - 192) * 64 + b2 - 128]
       ELSE [length |-> 0, code |-> 0]

Utf8At(s) == Utf8Sequence(EscapeAt(s), EscapeAt(SubSeq(s, 4, Len(s))))

RECURSIVE UriMalformed(_)
\* decodeURIComponent throws URIError: a "%" not followed by two hex digits,
\* or an escape that is not valid UTF-8 (a lone byte >= 0x80)
UriMalformed(s) ==
  IF s = <<>> THEN FALSE
  ELSE IF Head(s) = "%"
       THEN \E u \in {Utf8At(s)} :
              u.length = 0 \/ UriMalformed(SubSeq(s, u.length + 1, Len(s)))
       ELSE UriMalformed(Tail(s))

RECURSIVE UriDecoded(_)
UriDecoded(s) ==
  LET Escaped(u) ==
        <<CharOfCode(u.code)>> \o UriDecoded(SubSeq(s, u.length + 1, Len(s)))
  IN IF s = <<>> THEN <<>>
     ELSE IF Head(s) = "%" THEN Escaped(Utf8At(s))
          ELSE <<Head(s)>> \o UriDecoded(Tail(s))

\* decodeURIComponent(s): threw = TRUE stands for the URIError
decodeURIComponent(s) ==
  IF UriMalformed(s) THEN [threw |-> TRUE, value |-> s]
  ELSE [threw |-> FALSE, value |-> UriDecoded(s)]

\* try { t = decodeURIComponent(t) } catch (e) { /* keep t */ }
DecodeOrKeep(s) == IF UriMalformed(s) THEN s ELSE UriDecoded(s)

\* the characters String.prototype.trim removes, among the model's characters
WhiteSpace == {" ", "VT", "CR"}

RECURSIVE TrimLeft(_)
TrimLeft(s) ==
  IF s # <<>> /\ Head(s) \in WhiteSpace THEN TrimLeft(Tail(s)) ELSE s

RECURSIVE TrimRight(_)
TrimRight(s) ==
  IF s # <<>> /\ s[Len(s)] \in WhiteSpace THEN TrimRight(SubSeq(s, 1, Len(s) - 1))
  ELSE s

trim(s) == TrimRight(TrimLeft(s))

\* the chain of .replace() calls shared by the two title mappings, one
\* character at a time; "%" is replaced after the illegal characters and
\* before "&" and "+", and no replacement produces a later pattern
ReplaceTitleChar(c) ==
  CASE c \in {"\\", "/"} -> <<"-">>
    [] c \in {"<", ">", ":", "\"", "|", "?", "*"} -> <<"_">>
    [] c = "%" -> <<"-">>
    [] c = "&" -> <<"a", "n", "d">>
    [] c = "+" -> <<" ">>
    [] OTHER -> <<c>>

RECURSIVE ReplaceTitleChars(_)
ReplaceTitleChars(s) ==
  IF s = <<>> THEN <<>>
  ELSE ReplaceTitleChar(Head(s)) \o ReplaceTitleChars(Tail(s))

\* markdownConverter.mapWikiTitleToConfluence
mapWikiTitleToConfluence(wikiTitle) ==
  IF wikiTitle = <<>> THEN <<>>
  ELSE trim(ReplaceTitleChars(DecodeOrKeep(wikiTitle)))

\* wikiParser.sanitizeTitle
sanitizeTitle(title) ==
  IF title = <<>> THEN <<>>
  ELSE trim(ReplaceTitleChars(DecodeOrKeep(title)))

IsPrefix(p, s) == Len(p) <= Len(s) /\ SubSeq(s, 1, Len(p)) = p


(***************************************************************************)
(* The wiki tree, as parseWiki builds it: a directory with pages becomes a *)
(* page without content, a non-empty Markdown file a leaf with content.    *)
(***************************************************************************)
\* file names of the wiki (Azure DevOps percent-encodes "&" in file names)
TitlePool ==
  << <<"H", "o", "m", "e">>, <<"S", "e", "t", "u", "p">>,
     <<"R", "%", "2", "6", "D">>, <<"F", "A", "Q">>, <<"N", "e", "w", "s">> >>

\* a title no page of the tree has
GoneTitle == <<"O", "l", "d">>

\* PROJECT_NAME
projectName == <<"P">>

Nodes == 1..NumPages

\* the parent-chain shapes of NumPages pages; 0 is the wiki root
TreeShapes == { f \in [Nodes -> 0..NumPages] : \A i \in Nodes : f[i] < i }

\* at most one pair of pages shares a file name; <<0, 0>>: all distinct
DupChoices == {<<0, 0>>} \cup { <<i, j>> \in Nodes \X Nodes : i < j }

VARIABLES
  tree,            \* wikiStructure.pages: node -> [title, parent]
  validatorFile,   \* which of the two validatePages sources is loaded
  fixesFile,       \* .page-name-fixes.json: set of <<title, fixedTitle>>
  validationFile,  \* .validation-state.json: sequence of DuplicateRecord
  pc,              \* position of the migrate command
  authOk,          \* result of testAuthentication
  queue,           \* the duplicates validatePages returned in this run
  confPages,       \* pages of the target space: set of [id, title, parent, body]
  attachments,     \* attachments of the target: set of <<pageId, fileName>>
  nextId,          \* next id the target assigns
  pagesIdMap,      \* title -> id map, as a set of <<title, id>>
  todo,            \* pending (page, parentPageId) pairs of the traversal
  failures,        \* failed calls so far
  attempted,       \* phase -> pages createOrUpdatePage was called for
  succeeded,       \* phase -> pages createOrUpdatePage returned an id for
  createCalls,     \* createPage calls issued: set of [node, title, parentId]
  updateCalls,     \* updatePage calls issued: set of [node, id, phase]
  postCalls,       \* attachment POSTs issued: set of <<pageId, fileName>>
  returnedIds,     \* ids the target returned: set of <<node, id>>
  rendered,        \* node -> links of the body sent by the Phase 2 update
  apiFailed,       \* <<phase, node>> whose createOrUpdatePage met a failing call
  fixInput,        \* the duplicates list handed to applyNameFixes
  nameFixes,       \* the fixes applyNameFixes returned
  uploads,         \* uploadAttachment calls of the upload specification
  lastUpload,      \* outcome of the latest uploadAttachment call
  uploadErrors,    \* <<phase, node>> with an uploadAttachment that threw
  rateLimited,     \* <<phase, node>> whose failing call answered HTTP 429
  invocations,     \* calls of createConfluencePages by retryWithBackoff
  run,             \* number of the migrate run over the same wiki and space
  singlePage,      \* the page --single names (node), 0 without the option
  input,           \* argument of the function a function-level specification applies
  output,          \* what that function returned
  brokenContent,   \* leaves whose Markdown makes a pass of the conversion throw
  inFlight         \* <<phase, page>> whose createOrUpdatePage was called and has not settled

vars ==
  << tree, validatorFile, fixesFile, validationFile, pc, authOk, queue,
     confPages, attachments, nextId, pagesIdMap, todo, failures, attempted,
     succeeded, createCalls, updateCalls, postCalls, returnedIds, rendered,
     apiFailed, fixInput, nameFixes, uploads, lastUpload, uploadErrors,
     rateLimited,
     invocations,
     run,
     singlePage,
     input,
     output,
     brokenContent,
     inFlight >>

RECURSIVE ChildrenFrom(_, _)
\* page.children in order: the pages whose parent is n, from index i on
ChildrenFrom(n, i) ==
  IF i > NumPages THEN <<>>
  ELSE (IF tree[i].parent = n THEN <<i>> ELSE <<>>) \o ChildrenFrom(n, i + 1)

Children(n) == ChildrenFrom(n, 1)

IsLeaf(n) == Children(n) = <<>>

RECURSIVE Ancestors(_)
Ancestors(n) ==
  IF tree[n].parent = 0 THEN {}
  ELSE {tree[n].parent} \cup Ancestors(tree[n].parent)

\* CONFLUENCE_PARENT_PAGE_ID, a page of the target space
ParentPageId == 1
\* id of the page that may exist in the space before the run
ExistingPageId == 2
\* first id the target assigns to a created page
FirstNewId == 3

\* the attachment every Markdown file of the wiki references
LogoFile == <<"l", "o", "g", "o", ".", "p", "n", "g">>

\* image references uploadAttachments finds in the file at page.path;
\* reading a directory fails and the error is swallowed
AttachmentRefs(n) == IF IsLeaf(n) THEN {LogoFile} ELSE {}


(***************************************************************************)
(* The target space behind ConfluenceClient.                               *)
(***************************************************************************)
\* ConfluenceClient.getPageByTitle: the title is decoded once more, then the
\* first page with that title, or 0 for null
getPageByTitle(pages, title) ==
  LET First(decodedTitle) ==
        IF \E p \in pages : p.title = decodedTitle
        THEN (CHOOSE p \in pages : p.title = decodedTitle).id
        ELSE 0
  IN First(DecodeOrKeep(title))

\* the target answers POST /content with an error for a parent it does not
\* know and for a title the space already has
TargetRejectsCreate(pages, parentPageId, title) ==
  \/ parentPageId \notin ({p.id : p \in pages} \cup {ParentPageId})
  \/ \E p \in pages : p.title = title

\* title -> id map as a set of pairs: pageIdMap[title], 0 for undefined
MapGet(map, title) ==
  IF \E e \in map : e[1] = title
  THEN (CHOOSE e \in map : e[1] = title)[2]
  ELSE 0

\* pageIdMap[title] = id
MapPut(map, title, id) ==
  { e \in map : e[1] # title } \cup {<<title, id>>}

\* the calls of one createOrUpdatePage that may fail
FailPoints == {"lookup", "create", "listAttachments", "post", "update"}

(***************************************************************************)
(* ConfluenceClient.uploadAttachment(pageId, filePath, {fileName}).        *)
(* The response interceptor replaces every axios error by an Error with    *)
(* status and data only, so error.response is undefined in the catch block *)
(* and a rejected POST is always rethrown.                                 *)
(***************************************************************************)
uploadAttachment(atts, pageId, fileName, F) ==
  LET listed == "listAttachments" \notin F
      existingAttachment == listed /\ <<pageId, fileName>> \in atts
      rejected == <<pageId, fileName>> \in atts  \* 400: same file name
  IN IF existingAttachment
     THEN [threw |-> FALSE, posted |-> FALSE, atts |-> atts,
           reached |-> {"listAttachments"}]
     ELSE IF "post" \in F \/ rejected
          THEN [threw |-> TRUE, posted |-> TRUE, atts |-> atts,
                reached |-> {"listAttachments", "post"}]
          ELSE [threw |-> FALSE, posted |-> TRUE,
                atts |-> atts \cup {<<pageId, fileName>>},
                reached |-> {"listAttachments", "post"}]

\* attachmentOperations.uploadAttachments for the page at page.path: one
\* uploadAttachmentFile per referenced file, every error caught and logged
uploadAttachments(atts, pageId, n, F) ==
  IF AttachmentRefs(n) = {}
  THEN [atts |-> atts, posts |-> {}, failed |-> FALSE, reached |-> {}]
  ELSE LET Uploaded(r) ==
             [atts |-> r.atts,
              posts |-> IF r.posted THEN {<<pageId, LogoFile>>} ELSE {},
              failed |-> r.threw,
              reached |-> r.reached]
       IN Uploaded(uploadAttachment(atts, pageId, LogoFile, F))

(***************************************************************************)
(* markdownConverter.processConfluenceLinks.                               *)
(***************************************************************************)
Dialects == {"wikiText", "wikiSimple", "mdRelative", "azureUrl"}

\* every Markdown file links to every page of the wiki in every dialect,
\* naming the page by its file name
PageLinks == { [dialect |-> d, name |-> tree[m].title] :
                 d \in Dialects, m \in Nodes }

\* the Markdown link the source text holds, or the wiki link not yet
\* rewritten; url.scheme is what url.startsWith tests, url.azure is
\* url.includes("_wiki")
DirectLink(id) ==
  [kind |-> "direct", id |-> id, anchor |-> <<>>,
   url |-> [scheme |-> "http", azure |-> FALSE, name |-> <<>>]]

AnchorLink(title) ==
  [kind |-> "anchor", id |-> 0, anchor |-> title,
   url |-> [scheme |-> "anchor", azure |-> FALSE, name |-> <<>>]]

OriginalLink(l) ==
  [kind |-> "original", id |-> 0, anchor |-> <<>>,
   url |-> [scheme |-> IF l.dialect = "azureUrl" THEN "http" ELSE "abs",
            azure |-> l.dialect = "azureUrl", name |-> l.name]]

\* first and second replace: [[Page|Text]] and [[Page]]
ReplaceWikiLink(l, pageIdMap0) ==
  LET confluenceTitle == mapWikiTitleToConfluence(l.name)
      targetPageId == MapGet(pageIdMap0, confluenceTitle)
  IN IF targetPageId # 0 THEN DirectLink(targetPageId)
     ELSE AnchorLink(confluenceTitle)

\* third replace: every [text](url), the links the first two wrote included
ReplaceMarkdownLink(m, pageIdMap0) ==
  LET confluenceTitle == mapWikiTitleToConfluence(m.url.name)
      targetPageId == MapGet(pageIdMap0, confluenceTitle)
  IN IF m.url.scheme = "http"
     THEN IF m.url.azure /\ targetPageId # 0
          THEN DirectLink(targetPageId)
          ELSE m
     ELSE IF m.url.scheme = "abs"
          THEN IF targetPageId # 0 THEN DirectLink(targetPageId)
               ELSE AnchorLink(confluenceTitle)
          ELSE m

processConfluenceLink(l, pageIdMap0) ==
  IF l.dialect \in {"wikiText", "wikiSimple"}
  THEN ReplaceMarkdownLink(ReplaceWikiLink(l, pageIdMap0), pageIdMap0)
  ELSE ReplaceMarkdownLink(OriginalLink(l), pageIdMap0)

\* the links of the content of page n after processConfluenceLinks: set of
\* [dialect, name, kind, id, anchor]
processConfluenceLinks(n, pageIdMap0) ==
  IF ~IsLeaf(n) THEN {}
  ELSE { LET out == processConfluenceLink(l, pageIdMap0)
         IN [dialect |-> l.dialect, name |-> l.name, kind |-> out.kind,
             id |-> out.id, anchor |-> out.anchor] :
         l \in PageLinks }


(***************************************************************************)
(* pageOperations.createOrUpdatePage(page, ..., parentPageId, ...,         *)
(* pagesIdMap, InitializingallPages) for page n; pageFixes is never passed *)
(* and defaults to {}.  F is the set of calls that fail.  The result says  *)
(* whether it threw, the id it returned and what it did to the target; the *)
(* links of the body it sent are those of convertMarkdownToConfluenceHtml. *)
(***************************************************************************)
\* updatePage(confluenceClient, pageId, pageTitle, htmlContent, spaceKey)
updatePage(pages, pageId, pageTitle, body) ==
  { IF p.id = pageId THEN [p EXCEPT !.title = pageTitle, !.body = body] ELSE p :
      p \in pages }

\* a pass of the conversion throws on the content createOrUpdatePage hands
\* over for page n: never on the placeholder of the first pass nor on the
\* empty content of a directory page
ConversionFails(n, initializing) ==
  ~initializing /\ IsLeaf(n) /\ n \in brokenContent

\* convertMarkdownToConfluenceHtml(page.content, ..., pagesIdMap): the links
\* of the storage body it returns; the error block has the Markdown as it
\* was, no link of it is rewritten
convertMarkdownToConfluenceHtml(n, idMap) ==
  IF ConversionFails(n, FALSE) THEN {} ELSE processConfluenceLinks(n, idMap)

\* the kind of body convertMarkdownToConfluenceHtml returns
ConvertedBody(n, initializing) ==
  IF initializing THEN "placeholder"
  ELSE IF ~IsLeaf(n) THEN "empty"
       ELSE IF ConversionFails(n, initializing) THEN "errorBlock"
            ELSE "content"

\* the error of a pass leaving convertMarkdownToConfluenceHtml
AfterConversionErrorRethrow(conversionFailed) == conversionFailed

\* the catch blocks of convertMarkdownToConfluenceHtml: the error is logged
\* and a body with the message is returned, whether the function throws
AfterConversionError(conversionFailed) == FALSE

\* the upload error leaving createOrUpdatePage
AfterUploadErrorRethrow(uploadFailed) == uploadFailed

\* the catch around uploadAttachments: the error is logged, whether the
\* page is given up because of it
AfterUploadError(uploadFailed) == FALSE

\* upload attachments, convert the content, update the page
UploadConvertUpdate(n, initializing, pages, pageId, pageTitle, idMap, F) ==
  LET Updated(up, aborted, threw) ==
        [threw |-> threw,
         pageId |-> pageId,
         pages |-> IF threw THEN pages
                   ELSE updatePage(pages, pageId, pageTitle,
                                   ConvertedBody(n, initializing)),
         atts |-> up.atts,
         posts |-> up.posts,
         uploadFailed |-> up.failed,
         updates |-> IF aborted THEN {}
                     ELSE {[node |-> n, id |-> pageId, ok |-> ~threw,
                            phase |-> IF initializing THEN 1 ELSE 2]},
         reached |-> up.reached \cup (IF aborted THEN {} ELSE {"update"})]
      Uploaded(up) ==
        Updated(up, AfterUploadError(up.failed),
                \/ AfterUploadError(up.failed)
                \/ AfterConversionError(ConversionFails(n, initializing))
                \/ "update" \in F)
  IN Uploaded(uploadAttachments(attachments, pageId, n, F))

createOrUpdatePage(n, initializing, parentPageId, idMap, F) ==
  LET \* the page pageId, found or just created, is uploaded to and updated
      Updated(r, pageId, nextId0, creates, reached) ==
        [threw |-> r.threw, pageId |-> pageId,
         pages |-> r.pages, atts |-> r.atts, nextId |-> nextId0,
         creates |-> creates, updates |-> r.updates, posts |-> r.posts,
         uploadFailed |-> r.uploadFailed,
         returned |-> {<<n, pageId>>},
         reached |-> r.reached \cup reached]
      Titled(pageTitle, existingId) ==
        LET call == [node |-> n, title |-> pageTitle,
                     parentId |-> parentPageId,
                     phase |-> IF initializing THEN 1 ELSE 2]
            created == confPages \cup
                         {[id |-> nextId, title |-> pageTitle,
                           parent |-> parentPageId, body |-> "initializing"]}
        IN IF existingId # 0
           THEN IF initializing
                THEN [threw |-> FALSE, pageId |-> existingId,
                      pages |-> confPages, atts |-> attachments,
                      nextId |-> nextId, creates |-> {}, updates |-> {},
                      posts |-> {}, uploadFailed |-> FALSE,
                      returned |-> {<<n, existingId>>},
                      reached |-> {"lookup"}]
                ELSE Updated(UploadConvertUpdate(n, initializing, confPages,
                                                 existingId, pageTitle, idMap, F),
                             existingId, nextId, {}, {"lookup"})
           ELSE IF "create" \in F
                   \/ TargetRejectsCreate(confPages, parentPageId, pageTitle)
                THEN [threw |-> TRUE, pageId |-> 0, pages |-> confPages,
                      atts |-> attachments, nextId |-> nextId,
                      creates |-> {call}, updates |-> {}, posts |-> {},
                      uploadFailed |-> FALSE, returned |-> {},
                      reached |-> {"lookup", "create"}]
                ELSE Updated(UploadConvertUpdate(n, initializing, created,
                                                 nextId, pageTitle, idMap, F),
                             nextId, nextId + 1, {call}, {"lookup", "create"})
      \* pageTitle = originalTitle: the decoded title of the page
      Decoded(originalTitle) ==
        Titled(originalTitle,
               IF "lookup" \in F THEN 0
               ELSE getPageByTitle(confPages, originalTitle))
  IN Decoded(DecodeOrKeep(tree[n].title))

\* the sets F of failing calls one createOrUpdatePage may meet
FailSets == { F \in SUBSET FailPoints : Cardinality(F) <= MaxFailures - failures }

\* the recursive call passing on its own parentPageId
ChildParentIdStale(pageId, parentPageId) == parentPageId

\* the parentPageId of the recursive call for page.children: the id
\* createOrUpdatePage returned for the page
ChildParentId(pageId, parentPageId) == pageId

\* the recursion into page.children after the catch block
AfterPageErrorRecurse(pending) ==
  [i \in 1..Len(Children(Head(pending)[1])) |->
     <<Children(Head(pending)[1])[i], Head(pending)[2]>>] \o Tail(pending)

\* the error leaving the loop
AfterPageErrorAbort(pending) == <<>>

\* the catch block inside the for loop: log, go on with the next page
AfterPageError(pending) == Tail(pending)

\* the (page, parentPageId) pairs of a for loop over pages
LoopOver(pages, parentPageId) ==
  [i \in 1..Len(pages) |-> <<pages[i], parentPageId>>]

\* HTTP statuses the target answers a failing call with
FailStatuses == {429, 500}

\* the effects of one createOrUpdatePage on the target and on the call log;
\* status is the HTTP status of the calls of F
ApplyCall(n, phase, r, F, status) ==
  /\ F = {} => status = 500
  /\ apiFailed' = IF F = {} THEN apiFailed ELSE apiFailed \cup {<<phase, n>>}
  /\ rateLimited' = IF F # {} /\ status = 429
                    THEN rateLimited \cup {<<phase, n>>} ELSE rateLimited
  /\ confPages' = r.pages
  /\ attachments' = r.atts
  /\ nextId' = r.nextId
  /\ createCalls' = createCalls \cup r.creates
  /\ updateCalls' = updateCalls \cup r.updates
  /\ postCalls' = postCalls \cup r.posts
  /\ uploadErrors' = IF r.uploadFailed THEN uploadErrors \cup {<<phase, n>>}
                     ELSE uploadErrors
  /\ returnedIds' = returnedIds \cup r.returned
  /\ failures' = failures + Cardinality(F)

(***************************************************************************)
(* pageCreator.processALLPages: one iteration of the loop, the placeholder *)
(* pass.  The recursion into page.children is inside the try block.        *)
(***************************************************************************)
Phase1Step ==
  /\ pc = "phase1"
  /\ todo # <<>>
  /\ LET n == Head(todo)[1]
         parentPageId == Head(todo)[2]
     IN \E F \in FailSets, status \in FailStatuses :
          \E r \in {createOrUpdatePage(n, TRUE, parentPageId, pagesIdMap, F)} :
             /\ F \subseteq r.reached
             /\ ApplyCall(n, 1, r, F, status)
             /\ attempted' = [attempted EXCEPT ![1] = @ \cup {n}]
             /\ inFlight' = inFlight \ {<<1, n>>}
             /\ IF r.threw
                THEN /\ todo' = AfterPageError(todo)
                     /\ UNCHANGED <<pagesIdMap, succeeded>>
                ELSE /\ pagesIdMap' = MapPut(pagesIdMap, tree[n].title, r.pageId)
                     /\ succeeded' = [succeeded EXCEPT ![1] = @ \cup {n}]
                     /\ todo' = LoopOver(Children(n),
                                        ChildParentId(r.pageId, parentPageId))
                                 \o Tail(todo)
  /\ UNCHANGED <<tree, validatorFile, fixesFile, validationFile, pc, authOk,
                 queue, rendered, uploads, lastUpload, fixInput, nameFixes,
                 invocations,
                 run,
                 singlePage,
                 input,
                 output,
                 brokenContent>>

\* createConfluencePages between the two passes: Promise.all(undefined)
\* rejects, the rejection is logged, and processPages starts
StartPhase2 ==
  /\ pc = "phase1"
  /\ todo = <<>>
  /\ pc' = "phase2"
  /\ todo' = LoopOver(Children(0), ParentPageId)
  /\ UNCHANGED <<tree, validatorFile, fixesFile, validationFile, authOk, queue,
                 confPages, attachments, nextId, pagesIdMap, failures,
                 attempted, succeeded, createCalls, updateCalls, postCalls,
                 returnedIds, rendered, uploads, lastUpload, fixInput, nameFixes, apiFailed, uploadErrors,
                 rateLimited,
                 invocations,
                 run,
                 singlePage,
                 input,
                 output,
                 brokenContent,
                 inFlight>>

(***************************************************************************)
(* pageCreator.processPages: one iteration of the loop, the content pass.  *)
(***************************************************************************)
Phase2Step ==
  /\ pc = "phase2"
  /\ todo # <<>>
  /\ LET n == Head(todo)[1]
         parentPageId == Head(todo)[2]
     IN \E F \in FailSets, status \in FailStatuses :
          \E r \in {createOrUpdatePage(n, FALSE, parentPageId, pagesIdMap, F)} :
             /\ F \subseteq r.reached
             /\ ApplyCall(n, 2, r, F, status)
             /\ attempted' = [attempted EXCEPT ![2] = @ \cup {n}]
             /\ inFlight' = inFlight \ {<<2, n>>}
             /\ IF r.threw
                THEN /\ todo' = AfterPageError(todo)
                     /\ UNCHANGED <<succeeded, rendered>>
                ELSE /\ succeeded' = [succeeded EXCEPT ![2] = @ \cup {n}]
                     /\ rendered' = [rendered EXCEPT ![n] =
                                       convertMarkdownToConfluenceHtml(n, pagesIdMap)]
                     /\ todo' = LoopOver(Children(n),
                                        ChildParentId(r.pageId, parentPageId))
                                 \o Tail(todo)
  /\ UNCHANGED <<tree, validatorFile, fixesFile, validationFile, pc, authOk,
                 queue, pagesIdMap, uploads, lastUpload, fixInput, nameFixes,
                 invocations,
                 run,
                 singlePage,
                 input,
                 output,
                 brokenContent>>

(***************************************************************************)
(* confluence/index.js, retryWithBackoff around createConfluencePages, and *)
(* the errors of the ConfluenceClient as they arrive there.                *)
(***************************************************************************)
\* the response interceptor: new Error(error.message) with .status and
\* .data; the error has no .response (responseStatus 0: undefined)
InterceptorError(httpStatus) ==
  [thrown |-> TRUE, status |-> httpStatus, responseStatus |-> 0]

\* every client method: catch (error) { throw new Error(`... ${error.message}`) }
ClientMethodError(error) ==
  [thrown |-> TRUE, status |-> 0, responseStatus |-> 0]

\* what createConfluencePages throws, given the errors the page calls of
\* both passes threw: every page error is caught and logged inside the loops
\* of processALLPages and processPages, none leaves them
ErrorOfCreateConfluencePages(pageErrors) ==
  [thrown |-> FALSE, status |-> 0, responseStatus |-> 0]

\* retryWithBackoff(fn, retries = 3, delay = 1000)
RetryLimit == 3

\* the retry without the count: error.response?.status === 429
ShouldRetryAlways(error, retries) ==
  error.thrown /\ error.responseStatus = 429

\* the condition of the retry: error.response?.status === 429 && retries > 0
ShouldRetry(error, retries) ==
  error.thrown /\ error.responseStatus = 429 /\ retries > 0

\* one call of retryWithBackoff for the operation fn, given as the outcomes
\* of its successive invocations (it returns once they are used up): the
\* number of invocations, the delays waited in ms, and what the call settles
\* with
RECURSIVE retryWithBackoff(_, _, _)
retryWithBackoff(fn, retries, delay) ==
  LET Settled(outcome) ==
        LET Retried(r) ==
              [calls |-> r.calls + 1, waits |-> <<delay>> \o r.waits,
               settled |-> r.settled]
        IN IF ShouldRetry(outcome, retries)
           THEN Retried(retryWithBackoff(Tail(fn), retries - 1, delay * 2))
           ELSE [calls |-> 1, waits |-> <<>>, settled |-> outcome]
  IN Settled(IF fn = <<>>
             THEN [thrown |-> FALSE, status |-> 0, responseStatus |-> 0]
             ELSE Head(fn))

\* createConfluencePages settles: retryWithBackoff calls it again after the
\* delay or startConfluenceProcess returns and the migrate action completes
Finish ==
  /\ pc = "phase2"
  /\ todo = <<>>
  /\ IF ShouldRetry(
          ErrorOfCreateConfluencePages(
            {ClientMethodError(
               InterceptorError(IF e \in rateLimited THEN 429 ELSE 500)) :
               e \in apiFailed}),
          RetryLimit - (invocations - 1))
     THEN /\ pc' = "phase1"
          /\ todo' = LoopOver(Children(0), ParentPageId)
          /\ pagesIdMap' = {}
          /\ invocations' = invocations + 1
     ELSE /\ pc' = "done"
          /\ UNCHANGED <<todo, pagesIdMap, invocations>>
  /\ UNCHANGED <<tree, validatorFile, fixesFile, validationFile, authOk, queue,
                 confPages, attachments, nextId, failures,
                 attempted, succeeded, createCalls, updateCalls, postCalls,
                 returnedIds, rendered, uploads, lastUpload, fixInput,
                 nameFixes, apiFailed, uploadErrors, rateLimited,
                 run, singlePage, input, output,
                 brokenContent,
                 inFlight>>


(***************************************************************************)
(* Duplicate validation.  The repository holds two validatePages: the one  *)
(* of pageValidator.js, and the one that consults the fix map and          *)
(* sanitizes titles.  titles is the title of each page of the tree, FV the *)
(* pages whose title lookup throws.                                        *)
(***************************************************************************)
InWikiReason == "Duplicate title within wiki"
InTargetReason == "Page already exists in Confluence"

DuplicateRecord(title, reason, n, confluenceId) ==
  [title |-> title, reason |-> reason, path |-> n, confluenceId |-> confluenceId]

HasKey(map, key) == \E e \in map : e[1] = key

RECURSIVE checkPages(_, _, _, _, _, _)
\* pageValidator.js: checkPage over the pending pages in call order
checkPages(stack, processed, duplicates, titles, pages, FV) ==
  IF stack = <<>> THEN [duplicates |-> duplicates, looked |-> {}]
  ELSE LET n == Head(stack)
           title == titles[n]
       IN IF title \in processed
          THEN checkPages(Tail(stack), processed,
                          Append(duplicates,
                                 DuplicateRecord(title, InWikiReason, n, 0)),
                          titles, pages, FV)
          ELSE LET existingId == IF n \in FV THEN 0
                                 ELSE getPageByTitle(pages, title)
                   rest == checkPages(Children(n) \o Tail(stack),
                             processed \cup {title},
                             IF existingId # 0
                             THEN Append(duplicates,
                                    DuplicateRecord(title, InTargetReason, n,
                                                    existingId))
                             ELSE duplicates,
                             titles, pages, FV)
               IN [duplicates |-> rest.duplicates,
                   looked |-> rest.looked \cup {n}]

RECURSIVE checkPagesWithFixes(_, _, _, _, _, _, _)
\* the validatePages that loads the fix map: a fixed page and a title seen
\* before return without a record and without visiting the children
checkPagesWithFixes(stack, processed, duplicates, titles, pages, pageFixes, FV) ==
  IF stack = <<>> THEN [duplicates |-> duplicates, looked |-> {}]
  ELSE LET n == Head(stack)
           sanitizedTitle == sanitizeTitle(titles[n])
       IN IF HasKey(pageFixes, sanitizedTitle) \/ sanitizedTitle \in processed
          THEN checkPagesWithFixes(Tail(stack), processed, duplicates, titles,
                                   pages, pageFixes, FV)
          ELSE LET existingId == IF n \in FV THEN 0
                                 ELSE getPageByTitle(pages, sanitizedTitle)
                   rest == checkPagesWithFixes(Children(n) \o Tail(stack),
                             processed \cup {sanitizedTitle},
                             IF existingId # 0
                             THEN Append(duplicates,
                                    DuplicateRecord(sanitizedTitle,
                                      InTargetReason, n, existingId))
                             ELSE duplicates,
                             titles, pages, pageFixes, FV)
               IN [duplicates |-> rest.duplicates,
                   looked |-> rest.looked \cup {n}]

ValidatorFiles == {"pageValidator.js", "wikiParser.js"}

\* validatePages(confluenceClient, spaceKey, pages) of the loaded source
validatePages(impl, titles, pages, pageFixes, FV) ==
  IF impl = "pageValidator.js"
  THEN checkPages(Children(0), {}, <<>>, titles, pages, FV)
  ELSE checkPagesWithFixes(Children(0), {}, <<>>, titles, pages, pageFixes, FV)

Titles == [n \in Nodes |-> tree[n].title]

(***************************************************************************)
(* pageNameFixer.                                                          *)
(***************************************************************************)
generateFixedPageName(originalTitle, project) ==
  LET sanitized == sanitizeTitle(originalTitle)
      prefix == project \o <<" ", "-", " ">>
  IN IF IsPrefix(prefix, sanitized) THEN sanitized ELSE prefix \o sanitized

RECURSIVE Preorder(_)
\* the order pages.map visits the pages: a page, then its children
Preorder(stack) ==
  IF stack = <<>> THEN <<>>
  ELSE <<Head(stack)>> \o Preorder(Children(Head(stack)) \o Tail(stack))

RECURSIVE fixPageNames(_, _, _, _, _)
\* applyNameFixes: the first page, in visiting order, of every title of the
\* duplicates list gets the fixed title; result [titles, fixes]
fixPageNames(order, processed, titles, fixes, duplicates) ==
  IF order = <<>> THEN [titles |-> titles, fixes |-> fixes]
  ELSE LET n == Head(order)
           title == titles[n]
           listed == \E k \in 1..Len(duplicates) : duplicates[k].title = title
       IN IF listed /\ title \notin processed
          THEN fixPageNames(Tail(order), processed \cup {title},
                 [titles EXCEPT ![n] = generateFixedPageName(title, projectName)],
                 MapPut(fixes, title, generateFixedPageName(title, projectName)),
                 duplicates)
          ELSE fixPageNames(Tail(order), processed, titles, fixes, duplicates)

applyNameFixes(titles, duplicates) ==
  fixPageNames(Preorder(Children(0)), {}, titles, {}, duplicates)


(***************************************************************************)
(* src/index.js, the migrate action: the pre-flight authentication check.  *)
(***************************************************************************)
\* the migrate action going on whatever testAuthentication returned
AuthGateIgnored(ok) == "revalidate"

\* where the migrate action goes after testAuthentication returned ok
AuthGate(ok) == IF ok THEN "revalidate" ELSE "exitAuth"

\* testAuthentication: getSpaceByKey answers or throws
TestAuthentication ==
  /\ pc = "start"
  /\ \E ok \in BOOLEAN :
       /\ authOk' = ok
       /\ pc' = AuthGate(ok)
  /\ UNCHANGED <<tree, validatorFile, fixesFile, validationFile, queue,
                 confPages, attachments, nextId, pagesIdMap, todo, failures,
                 attempted, succeeded, createCalls, updateCalls, postCalls,
                 returnedIds, rendered, uploads, lastUpload, fixInput, nameFixes, apiFailed, uploadErrors,
                 rateLimited,
                 invocations,
                 run,
                 singlePage,
                 input,
                 output,
                 brokenContent,
                 inFlight>>

(***************************************************************************)
(* confluence/index.js, startConfluenceProcess: the re-check of the        *)
(* persisted validation state.                                             *)
(***************************************************************************)
findPageInStructure(titles, title) == \E n \in Nodes : titles[n] = title

countPagesWithTitle(titles, title) ==
  Cardinality({ n \in Nodes : titles[n] = title })

\* the records whose re-check calls getPageByTitle
RecheckLookups(existingValidation) ==
  { k \in 1..Len(existingValidation) :
      /\ findPageInStructure(Titles, existingValidation[k].title)
      /\ existingValidation[k].reason = InTargetReason }

\* whether record k is pushed to stillDuplicate; FR: the lookups that throw
StillHolds(existingValidation, k, FR) ==
  LET duplicate == existingValidation[k]
  IN /\ findPageInStructure(Titles, duplicate.title)
     /\ IF duplicate.reason = InTargetReason
        THEN k \notin FR /\ getPageByTitle(confPages, duplicate.title) # 0
        ELSE countPagesWithTitle(Titles, duplicate.title) > 1

RECURSIVE StillDuplicateFrom(_, _, _)
StillDuplicateFrom(existingValidation, k, FR) ==
  IF k > Len(existingValidation) THEN <<>>
  ELSE (IF StillHolds(existingValidation, k, FR)
        THEN <<existingValidation[k]>> ELSE <<>>)
       \o StillDuplicateFrom(existingValidation, k + 1, FR)

\* saveValidationState / clearValidationState: a failed write or remove is
\* caught and logged, the file keeps its content
WriteValidationFile(content, writeFails) ==
  IF writeFails THEN validationFile ELSE content

\* where startConfluenceProcess goes with the duplicates it found
ConflictGate(duplicates, next) ==
  IF Len(duplicates) > 0 THEN "exitConflicts" ELSE next

Revalidate ==
  /\ pc = "revalidate"
  /\ IF Len(validationFile) = 0
     THEN /\ pc' = "validate"
          /\ UNCHANGED <<validationFile, queue, failures>>
     ELSE \E FR \in SUBSET RecheckLookups(validationFile), writeFails \in BOOLEAN :
            LET stillDuplicate == StillDuplicateFrom(validationFile, 1, FR)
                failed == Cardinality(FR) + (IF writeFails THEN 1 ELSE 0)
            IN /\ failed <= MaxFailures - failures
               /\ failures' = failures + failed
               /\ validationFile' = WriteValidationFile(stillDuplicate, writeFails)
               /\ queue' = stillDuplicate
               /\ pc' = ConflictGate(stillDuplicate, "validate")
  /\ UNCHANGED <<tree, validatorFile, fixesFile, authOk, confPages,
                 attachments, nextId, pagesIdMap, todo, attempted, succeeded,
                 createCalls, updateCalls, postCalls, returnedIds, rendered,
                 uploads, lastUpload, fixInput, nameFixes, apiFailed, uploadErrors,
                 rateLimited,
                 invocations,
                 run,
                 singlePage,
                 input,
                 output,
                 brokenContent,
                 inFlight>>

(***************************************************************************)
(* startConfluenceProcess: validation for new duplicates, then the call of *)
(* createConfluencePages, which starts the placeholder pass.               *)
(***************************************************************************)
ValidateNew ==
  /\ pc = "validate"
  /\ \E FV \in SUBSET Nodes, writeFails \in BOOLEAN :
       LET v == validatePages(validatorFile, Titles, confPages, fixesFile, FV)
           newDuplicates == v.duplicates
           failed == Cardinality(FV) + (IF writeFails THEN 1 ELSE 0)
       IN /\ FV \subseteq v.looked
          /\ writeFails => Len(newDuplicates) > 0
          /\ failed <= MaxFailures - failures
          /\ failures' = failures + failed
          /\ queue' = newDuplicates
          /\ pc' = ConflictGate(newDuplicates, "phase1")
          /\ IF Len(newDuplicates) > 0
             THEN /\ validationFile' = WriteValidationFile(newDuplicates, writeFails)
                  /\ UNCHANGED todo
             ELSE /\ todo' = LoopOver(Children(0), ParentPageId)
                  /\ UNCHANGED validationFile
          /\ invocations' = IF Len(newDuplicates) > 0 THEN invocations ELSE 1
  /\ UNCHANGED <<tree, validatorFile, fixesFile, authOk, confPages,
                 attachments, nextId, pagesIdMap, attempted, succeeded,
                 createCalls, updateCalls, postCalls, returnedIds, rendered,
                 uploads, lastUpload, fixInput, nameFixes, apiFailed, uploadErrors,
                 rateLimited,
                 run,
                 singlePage,
                 input,
                 output,
                 brokenContent,
                 inFlight>>

(***************************************************************************)
(* Initial states: a wiki tree, the persisted files and the target space   *)
(* before the migrate command starts.                                      *)
(***************************************************************************)
TreeOf(shape, dup) ==
  [n \in Nodes |->
     [title |-> IF n = dup[2] THEN TitlePool[dup[1]] ELSE TitlePool[n],
      parent |-> shape[n]]]

RootPage ==
  [id |-> ParentPageId, title |-> <<"W", "i", "k", "i">>, parent |-> 0,
   body |-> "existing"]

ExistingPage(title) ==
  [id |-> ExistingPageId, title |-> title, parent |-> ParentPageId,
   body |-> "existing"]

\* the target space before the run: the parent page and at most one page
\* with the title a wiki page will be published under
InitialSpaces ==
  {{RootPage}} \cup
  { {RootPage, ExistingPage(DecodeOrKeep(TitlePool[n]))} : n \in Nodes }

\* .validation-state.json left by an earlier run
InitialValidationFiles ==
  { <<>>,
    <<DuplicateRecord(TitlePool[1], InTargetReason, 1, ExistingPageId)>>,
    <<DuplicateRecord(TitlePool[1], InWikiReason, 1, 0)>>,
    <<DuplicateRecord(GoneTitle, InWikiReason, 0, 0)>> }

\* .page-name-fixes.json left by an earlier fix
InitialFixesFiles ==
  { {}, {<<sanitizeTitle(TitlePool[2]),
           generateFixedPageName(TitlePool[2], projectName)>>} }

InitCommon ==
  /\ \E shape \in TreeShapes, dup \in DupChoices : tree = TreeOf(shape, dup)
  /\ validatorFile \in ValidatorFiles
  /\ fixesFile \in InitialFixesFiles
  /\ validatorFile = "pageValidator.js" => fixesFile = {}
  /\ confPages \in InitialSpaces
  /\ authOk = FALSE
  /\ queue = <<>>
  /\ attachments = {}
  /\ nextId = FirstNewId
  /\ pagesIdMap = {}
  /\ todo = <<>>
  /\ failures = 0
  /\ attempted = [ph \in {1, 2} |-> {}]
  /\ succeeded = [ph \in {1, 2} |-> {}]
  /\ createCalls = {}
  /\ updateCalls = {}
  /\ postCalls = {}
  /\ returnedIds = {}
  /\ rendered = [n \in Nodes |-> {}]
  /\ apiFailed = {}
  /\ uploadErrors = {}
  /\ fixInput = <<>>
  /\ nameFixes = {}
  /\ uploads = 0
  /\ lastUpload = [pageId |-> 0, fileName |-> <<>>, existed |-> FALSE,
                   posted |-> FALSE, threw |-> FALSE]
  /\ rateLimited = {}
  /\ invocations = 0
  /\ run = 1
  /\ inFlight = {}

Init ==
  /\ InitCommon
  /\ brokenContent = {}
  /\ validationFile \in InitialValidationFiles
  /\ singlePage = 0
  /\ input = <<>>
  /\ output = <<>>
  /\ pc = "start"

Next ==
  \/ TestAuthentication
  \/ Revalidate
  \/ ValidateNew
  \/ Phase1Step
  \/ StartPhase2
  \/ Phase2Step
  \/ Finish

Spec == Init /\ [][Next]_vars


(***************************************************************************)
(* The conflict resolution cycle over several runs: validation exits with  *)
(* conflicts, the name fixer is applied to the queue and its fix map is    *)
(* saved, the next run re-checks the persisted queue against the wiki.     *)
(***************************************************************************)
\* applyNameFixes on the queue, then saveFixes; the wiki on disk keeps its
\* titles, the renamed structure is the returned value
FixNames ==
  /\ pc = "exitConflicts"
  /\ LET fixed == applyNameFixes(Titles, queue)
     IN /\ nameFixes' = fixed.fixes
        /\ fixesFile' = fixed.fixes
  /\ fixInput' = queue
  /\ pc' = "revalidate"
  /\ UNCHANGED <<tree, validatorFile, validationFile, authOk, queue,
                 confPages, attachments, nextId, pagesIdMap, todo, failures,
                 attempted, succeeded, createCalls, updateCalls, postCalls,
                 returnedIds, rendered, apiFailed, uploads, lastUpload, uploadErrors,
                 rateLimited,
                 invocations,
                 run,
                 singlePage,
                 input,
                 output,
                 brokenContent,
                 inFlight>>

InitNames ==
  /\ InitCommon
  /\ brokenContent = {}
  /\ singlePage = 0
  /\ input = <<>>
  /\ output = <<>>
  /\ validationFile = <<>>
  /\ pc = "validate"

NextNames ==
  \/ ValidateNew
  \/ FixNames
  \/ Revalidate

SpecNames == InitNames /\ [][NextNames]_vars

(***************************************************************************)
(* ConfluenceClient.uploadAttachment on its own: repeated uploads of files *)
(* to pages of the space.                                                  *)
(***************************************************************************)
NotesFile == <<"n", "o", "t", "e", "s", ".", "p", "d", "f">>

UploadAttachment ==
  /\ pc = "upload"
  /\ uploads < MaxUploads
  /\ \E pageId \in {p.id : p \in confPages}, fileName \in {LogoFile, NotesFile},
        F \in SUBSET {"listAttachments", "post"} :
       LET r == uploadAttachment(attachments, pageId, fileName, F)
       IN /\ F \subseteq r.reached
          /\ Cardinality(F) <= MaxFailures - failures
          /\ failures' = failures + Cardinality(F)
          /\ attachments' = r.atts
          /\ postCalls' = IF r.posted THEN postCalls \cup {<<pageId, fileName>>}
                          ELSE postCalls
          /\ lastUpload' = [pageId |-> pageId, fileName |-> fileName,
                            existed |-> <<pageId, fileName>> \in attachments,
                            posted |-> r.posted, threw |-> r.threw]
  /\ uploads' = uploads + 1
  /\ UNCHANGED <<tree, validatorFile, fixesFile, validationFile, pc, authOk,
                 queue, confPages, nextId, pagesIdMap, todo, attempted,
                 succeeded, createCalls, updateCalls, returnedIds, rendered,
                 apiFailed, fixInput, nameFixes, uploadErrors,
                 rateLimited,
                 invocations,
                 run,
                 singlePage,
                 input,
                 output,
                 brokenContent,
                 inFlight>>

InitUpload ==
  /\ InitCommon
  /\ brokenContent = {}
  /\ singlePage = 0
  /\ input = <<>>
  /\ output = <<>>
  /\ validationFile = <<>>
  /\ validatorFile = "pageValidator.js"
  /\ \A n \in Nodes : tree[n].parent = 0 /\ tree[n].title = TitlePool[n]
  /\ pc = "upload"

NextUpload == UploadAttachment

SpecUpload == InitUpload /\ [][NextUpload]_vars


(***************************************************************************)
(* A run that stops between the two passes and the migrate command run     *)
(* again over the same wiki and the same space.                            *)
(***************************************************************************)

\* the process ends after processALLPages; the next run starts with what
\* the target space and the working directory hold
StopAndRerun ==
  /\ pc = "phase1"
  /\ todo = <<>>
  /\ run < MaxRuns
  /\ run' = run + 1
  /\ pc' = "start"
  /\ authOk' = FALSE
  /\ queue' = <<>>
  /\ pagesIdMap' = {}
  /\ invocations' = 0
  /\ attempted' = [ph \in {1, 2} |-> {}]
  /\ succeeded' = [ph \in {1, 2} |-> {}]
  /\ UNCHANGED <<tree, validatorFile, fixesFile, validationFile, confPages,
                 attachments, nextId, todo, failures, createCalls, updateCalls,
                 postCalls, returnedIds, rendered, apiFailed, fixInput,
                 nameFixes, uploads, lastUpload, uploadErrors, rateLimited,
                 singlePage,
                 input,
                 output,
                 brokenContent,
                 inFlight>>

NextRerun == Next \/ StopAndRerun

SpecRerun == Init /\ [][NextRerun]_vars

(***************************************************************************)
(* migrate --single <page>: the migrate action stores the option in        *)
(* process.env.SINGLE_PAGE and starts the same process.                    *)
(***************************************************************************)
InitSingle ==
  /\ InitCommon
  /\ brokenContent = {}
  /\ validatorFile = "pageValidator.js"
  /\ validationFile = <<>>
  /\ singlePage \in Nodes
  /\ input = <<>>
  /\ output = <<>>
  /\ pc = "start"

SpecSingle == InitSingle /\ [][Next]_vars

(***************************************************************************)
(* The loops of processALLPages and processPages as the event loop runs    *)
(* them: a call of createOrUpdatePage is pending until its promise         *)
(* settles.  Phase1Step and Phase2Step are the settling of the call for    *)
(* the page at the head of the loop.                                       *)
(***************************************************************************)
\* pages.map(async ...): every page of the list is started
NextCallsFanOut(pending) == pending

\* for (const page of pages): the loop body runs for one page
NextCalls(pending) == <<Head(pending)>>

\* const pageId = await createOrUpdatePage(...): the call is made, the loop
\* is suspended until it settles
CallCreateOrUpdatePage ==
  /\ pc \in {"phase1", "phase2"}
  /\ todo # <<>>
  /\ inFlight = {}
  /\ inFlight' = { <<IF pc = "phase1" THEN 1 ELSE 2, NextCalls(todo)[i][1]>> :
                     i \in DOMAIN NextCalls(todo) }
  /\ UNCHANGED <<tree, validatorFile, fixesFile, validationFile, pc, authOk,
                 queue, confPages, attachments, nextId, pagesIdMap, todo,
                 failures, attempted, succeeded, createCalls, updateCalls,
                 postCalls, returnedIds, rendered, apiFailed, fixInput,
                 nameFixes, uploads, lastUpload, uploadErrors, rateLimited,
                 invocations, run, singlePage, input, output, brokenContent>>

InitSequential ==
  /\ InitCommon
  /\ brokenContent = {}
  /\ validatorFile = "pageValidator.js"
  /\ validationFile = <<>>
  /\ singlePage = 0
  /\ input = <<>>
  /\ output = <<>>
  /\ pc = "start"

NextSequential ==
  \/ TestAuthentication
  \/ Revalidate
  \/ ValidateNew
  \/ CallCreateOrUpdatePage
  \/ inFlight # {} /\ Phase1Step
  \/ StartPhase2
  \/ inFlight # {} /\ Phase2Step
  \/ Finish

SpecSequential == InitSequential /\ [][NextSequential]_vars

(***************************************************************************)
(* A wiki with a page whose Markdown a pass of the conversion cannot       *)
(* handle (marked throws on it).                                           *)
(***************************************************************************)
InitContent ==
  /\ InitCommon
  /\ brokenContent \in {{n} : n \in Nodes}
  /\ validatorFile = "pageValidator.js"
  /\ validationFile = <<>>
  /\ singlePage = 0
  /\ input = <<>>
  /\ output = <<>>
  /\ pc = "start"

SpecContent == InitContent /\ [][Next]_vars

(***************************************************************************)
(* Function-level specifications: the migrate command is not running, a    *)
(* function is applied to an argument drawn from a bounded set.            *)
(***************************************************************************)
\* the state of everything the function does not touch
InitIdle ==
  /\ InitCommon
  /\ brokenContent = {}
  /\ tree = TreeOf([n \in Nodes |-> 0], <<0, 0>>)
  /\ validatorFile = "pageValidator.js"
  /\ fixesFile = {}
  /\ confPages = {RootPage}
  /\ validationFile = <<>>
  /\ singlePage = 0

\* the function returned: its result is kept, nothing else changes
Returns(result, at) ==
  /\ output' = result
  /\ pc' = at
  /\ UNCHANGED <<tree, validatorFile, fixesFile, validationFile, authOk,
                 queue, confPages, attachments, nextId, pagesIdMap, todo,
                 failures, attempted, succeeded, createCalls, updateCalls,
                 postCalls, returnedIds, rendered, apiFailed, fixInput,
                 nameFixes, uploads, lastUpload, uploadErrors, rateLimited,
                 invocations, run, singlePage, input, brokenContent,
                 inFlight>>

(***************************************************************************)
(* The parsers on one directory: local/wikiParser.parseDirectory,          *)
(* local/htmlGenerator.processDirectory and confluence/wikiParser.parseWiki *)
(* (the one the migration uses).  An entry is a Markdown file <title>.md   *)
(* or a directory <title> that holds pages; readdir is the order in which  *)
(* fs.readdir returns the entries (the file system's order), order the     *)
(* lines of the .order file.  The result is the order of the sibling pages. *)
(***************************************************************************)
\* the names of the entries, without extension
EntryTitles == << <<"B","e","t","a">>, <<"A","l","p","h","a">>,
                  <<"Q","%","2","6","A">>, <<"G","a","m","m","a">> >>

\* String.prototype.localeCompare on these names: the position of each in
\* the alphabet
LocaleRank == <<2, 1, 4, 3>>

Entries == 1..NumEntries

\* the sequences without repetition over the set S
Arrangements(S) ==
  {f \in [1..Cardinality(S) -> S] : \A i, j \in DOMAIN f : f[i] = f[j] => i = j}

Elements(seq) == {seq[i] : i \in DOMAIN seq}

\* a non-empty directory read by one of the three parsers, each entry a
\* file or a directory, with a .order file that lists some, but not all,
\* of the entries
DirectoryInputs ==
  UNION {{[parser |-> p, readdir |-> r, order |-> o, kind |-> k] :
            p \in {"parseWiki", "parseDirectory", "processDirectory"},
            o \in UNION {Arrangements(T) :
                           T \in (SUBSET Elements(r)) \ {Elements(r)}},
            k \in [Elements(r) -> {"file", "dir"}]} :
           r \in UNION {Arrangements(S) : S \in (SUBSET Entries) \ {{}}}}

RECURSIVE CollapseWhiteSpace(_)
\* .replace(/\s+/g, '-')
CollapseWhiteSpace(s) ==
  IF s = <<>> THEN <<>>
  ELSE IF Head(s) \in WhiteSpace
       THEN <<"-">> \o CollapseWhiteSpace(TrimLeft(s))
       ELSE <<Head(s)>> \o CollapseWhiteSpace(Tail(s))

\* parseDirectory's normalizeTitle: every character that is not a word
\* character (among the model's), white space or "-" becomes "-"
normalizeTitle(title) ==
  LET wordChars == {"A","B","G","Q","a","b","e","h","l","m","p","t","0","1",
                    "2","3","4","5","6","7","8","9","_"}
  IN CollapseWhiteSpace(
       [i \in DOMAIN title |->
          IF title[i] \in wordChars \cup WhiteSpace \cup {"-"} THEN title[i]
          ELSE "-"])

\* orderMap.get(normalizeTitle(decodedTitle)), 999 when the map has no such
\* key; orderItems are the lines trimmed and decoded, and a later line
\* overwrites an earlier one with the same key
OrderOf(e, order) ==
  LET key == normalizeTitle(DecodeOrKeep(EntryTitles[e]))
      orderItems == [i \in DOMAIN order |->
                       DecodeOrKeep(trim(EntryTitles[order[i]]))]
      hits == {i \in DOMAIN order : normalizeTitle(orderItems[i]) = key}
  IN IF hits = {} THEN 999
     ELSE (CHOOSE i \in hits : \A j \in hits : j <= i) - 1

\* pageOrder.indexOf(item) of processDirectory: the lines are compared, as
\* they are, with the name of the entry in the directory listing
IndexOf(e, order, kind) ==
  LET item == IF kind[e] = "file" THEN EntryTitles[e] \o <<".","m","d">>
              ELSE EntryTitles[e]
      hits == {i \in DOMAIN order : EntryTitles[order[i]] = item}
  IN IF hits = {} THEN -1
     ELSE (CHOOSE i \in hits : \A j \in hits : i <= j) - 1

RECURSIVE InsertSorted(_, _, _)
\* x after every element of the sorted sequence that is not greater
InsertSorted(x, sorted, key) ==
  IF sorted = <<>> THEN <<x>>
  ELSE IF key[x] < key[Head(sorted)] THEN <<x>> \o sorted
       ELSE <<Head(sorted)>> \o InsertSorted(x, Tail(sorted), key)

RECURSIVE StableSort(_, _)
\* Array.prototype.sort, which is stable, with the comparator key[a] - key[b]
StableSort(seq, key) ==
  IF seq = <<>> THEN <<>>
  ELSE InsertSorted(seq[Len(seq)],
                    StableSort(SubSeq(seq, 1, Len(seq) - 1), key), key)

\* local/wikiParser.parseDirectory: pages pushed in the order of readdir,
\* then sorted by their order field
parseDirectoryOrder(d) ==
  StableSort(d.readdir, [e \in Elements(d.readdir) |-> OrderOf(e, d.order)])

\* local/htmlGenerator.processDirectory: the names sorted by their index in
\* the .order lines, those without index last and by localeCompare
processDirectoryOrder(d) ==
  StableSort(d.readdir,
             [e \in Elements(d.readdir) |->
                IF IndexOf(e, d.order, d.kind) = -1
                THEN Len(d.order) + LocaleRank[e]
                ELSE IndexOf(e, d.order, d.kind)])

\* a parser reads the directory; confluence/wikiParser.parseWiki returns the
\* pages in the order of readdir: the .order file starts with a dot and is
\* skipped like every hidden file
ParseDirectoryListing ==
  /\ pc = "parse"
  /\ Returns(CASE input.parser = "parseWiki" -> input.readdir
               [] input.parser = "parseDirectory" -> parseDirectoryOrder(input)
               [] input.parser = "processDirectory" ->
                    processDirectoryOrder(input),
             "parsed")

(***************************************************************************)
(* The parsers on a directory in which an entry may be present as a        *)
(* Markdown file <title>.md, as a directory <title>, or as both, the way   *)
(* the Azure DevOps export stores a page with sub-pages.  A directory      *)
(* either holds no page or the one page Bar.md.  There is no .order file;  *)
(* readdir returns the entries in ascending order, a directory before the  *)
(* file of the same title.  A page of the result records the file whose    *)
(* text is its content (contentOf, 0 when it has none).                    *)
(***************************************************************************)
TreeInputs ==
  {[pipeline |-> p, file |-> f, dir |-> d] :
     p \in {"parseWiki", "parseDirectory", "createLocalPages"},
     f \in [Entries -> {"absent", "empty", "text"}],
     d \in [Entries -> {"absent", "empty", "pages"}]}

BarTitle == <<"B","a","r">>

RECURSIVE ReplaceAll(_, _, _)
\* s.replace(/pat/g, rep) for a literal pattern
ReplaceAll(s, pat, rep) ==
  IF Len(s) < Len(pat) THEN s
  ELSE IF SubSeq(s, 1, Len(pat)) = pat
       THEN rep \o ReplaceAll(SubSeq(s, Len(pat) + 1, Len(s)), pat, rep)
       ELSE <<Head(s)>> \o ReplaceAll(Tail(s), pat, rep)

\* pathUtils.decodeUrlEncoded: ten literal replacements in this order, then
\* decodeURIComponent when it does not throw
decodeUrlEncoded(text) ==
  DecodeOrKeep(
    ReplaceAll(
      ReplaceAll(
        ReplaceAll(
          ReplaceAll(
            ReplaceAll(
              ReplaceAll(
                ReplaceAll(
                  ReplaceAll(
                    ReplaceAll(
                      ReplaceAll(text, <<"%","2","D">>, <<"-">>),
                      <<"%","2","0">>, <<" ">>),
                    <<"%","3","A">>, <<":">>),
                  <<"%","2","F">>, <<"/">>),
                <<"%","2","6">>, <<"&">>),
              <<"%","3","F">>, <<"?">>),
            <<"%","3","D">>, <<"=">>),
          <<"%","2","5">>, <<"%">>),
        <<"%","4","0">>, <<"@">>),
      <<"%","2","B">>, <<"+">>))

\* pathUtils.sanitizePathSegment
sanitizePathSegment(segment) ==
  LET RECURSIVE CollapseHyphens(_)
      \* .replace(/-+/g, '-')
      CollapseHyphens(s) ==
        IF Len(s) < 2 THEN s
        ELSE IF s[1] = "-" /\ s[2] = "-" THEN CollapseHyphens(Tail(s))
             ELSE <<Head(s)>> \o CollapseHyphens(Tail(s))
      RECURSIVE StripHyphens(_)
      \* .replace(/^-+|-+$/g, '')
      StripHyphens(s) ==
        IF s # <<>> /\ Head(s) = "-" THEN StripHyphens(Tail(s))
        ELSE IF s # <<>> /\ s[Len(s)] = "-"
             THEN StripHyphens(SubSeq(s, 1, Len(s) - 1))
             ELSE s
      unnamed == <<"u","n","n","a","m","e","d">>
      \* .replace(/[<>:"/\\|?*]/g, '_')
      Replaced(decoded) ==
        [i \in DOMAIN decoded |->
           IF decoded[i] \in {"<", ">", ":", "\"", "/", "\\", "|", "?", "*"}
           THEN "_" ELSE decoded[i]]
      \* .substring(0, 50)
      Cut(hyphened) ==
        IF Len(hyphened) > 50 THEN SubSeq(hyphened, 1, 50) ELSE hyphened
      Named(result) == IF result = <<>> THEN unnamed ELSE result
  IN IF segment = <<>> THEN unnamed
     ELSE Named(StripHyphens(Cut(CollapseHyphens(CollapseWhiteSpace(
            Replaced(decodeUrlEncoded(segment)))))))

RECURSIVE parseWikiFrom(_, _)
\* confluence/wikiParser.parseWiki from entry e on: a directory with pages
\* is pushed as a page without content, a non-empty Markdown file as a page
\* with its content and no children
parseWikiFrom(d, e) ==
  IF e > NumEntries THEN <<>>
  ELSE (IF d.dir[e] = "pages"
        THEN <<[title |-> EntryTitles[e], isDirectory |-> TRUE, contentOf |-> 0,
                children |-> <<BarTitle>>]>>
        ELSE <<>>)
       \o (IF d.file[e] = "text"
           THEN <<[title |-> EntryTitles[e], isDirectory |-> FALSE,
                   contentOf |-> e, children |-> <<>>]>>
           ELSE <<>>)
       \o parseWikiFrom(d, e + 1)

RECURSIVE parseDirectoryFrom(_, _)
\* local/wikiParser.parseDirectory from entry e on: a directory with pages
\* is pushed as a page whose indexContent comes from an index.md or a
\* <title>.md inside it (there is none), a Markdown file as a page of its
\* own; all have order 999 and the sort leaves them as pushed
parseDirectoryFrom(d, e) ==
  IF e > NumEntries THEN <<>>
  ELSE (IF d.dir[e] = "pages"
        THEN <<[title |-> DecodeOrKeep(EntryTitles[e]), isDirectory |-> TRUE,
                contentOf |-> 0, children |-> <<BarTitle>>]>>
        ELSE <<>>)
       \o (IF d.file[e] # "absent"
           THEN <<[title |-> DecodeOrKeep(EntryTitles[e]), isDirectory |-> FALSE,
                   contentOf |-> e, children |-> <<>>]>>
           ELSE <<>>)
       \o parseDirectoryFrom(d, e + 1)

RECURSIVE preprocessPagesFrom(_, _)
\* createLocalPages' preprocessPages from page i on: the pages are grouped
\* by sanitizePathSegment(title); a group with a directory page and a file
\* page becomes the directory page with the file's path as the source of
\* its content; the groups come out in the order of their first page
preprocessPagesFrom(pages, i) ==
  LET last(S) == CHOOSE j \in S : \A k \in S : k <= j
      Merged(dirs, files) ==
        IF dirs # {} /\ files # {}
        THEN [pages[last(dirs)] EXCEPT
                !.contentOf = pages[last(files)].contentOf]
        ELSE IF dirs # {} THEN pages[last(dirs)]
             ELSE pages[last(files)]
      Grouped(group) ==
        IF \A j \in group : i <= j
        THEN <<Merged({j \in group : pages[j].isDirectory},
                      {j \in group : ~pages[j].isDirectory})>>
        ELSE <<>>
      Keyed(key) == Grouped({j \in DOMAIN pages : key[j] = key[i]})
  IN IF i > Len(pages) THEN <<>>
     ELSE Keyed([j \in DOMAIN pages |-> sanitizePathSegment(pages[j].title)])
          \o preprocessPagesFrom(pages, i + 1)

\* a pipeline parses the directory
ParseTree ==
  /\ pc = "parseTree"
  /\ Returns(CASE input.pipeline = "parseWiki" -> parseWikiFrom(input, 1)
               [] input.pipeline = "parseDirectory" ->
                    parseDirectoryFrom(input, 1)
               [] input.pipeline = "createLocalPages" ->
                    preprocessPagesFrom(parseDirectoryFrom(input, 1), 1),
             "parsedTree")

(***************************************************************************)
(* Attachment file names: cleanAttachmentFilename and removeAfterExtension *)
(* of the HTML generator, applied to a name of the .attachments directory  *)
(* as a page refers to it: with a size hint, with a GUID, URL-encoded once *)
(* or more.                                                                *)
(***************************************************************************)
\* the rounds of URL-encoding a reference went through
MaxEncodings == 2

Guid ==
  <<"3","f","a","8","5","f","6","4","-","5","7","1","7","-","4","5","6","2",
    "-","b","3","f","c","-","2","c","9","6","3","f","6","6","a","f","a","6">>

\* a name, with or without GUID, extension and size hint, URL-encoded
\* rounds times
ArtifactNames ==
  {[base |-> b, guid |-> g, extension |-> e, hint |-> h, rounds |-> k] :
     b \in {<<"i","m","g">>, <<"m","y"," ","p","i","c">>, <<"Q","&","A">>},
     g \in {<<>>, <<"-">> \o Guid},
     e \in {<<>>, <<".","p","n","g">>},
     h \in {<<>>, <<"=","7","5","0","x">>, <<" ","=","7","5","0","x">>},
     k \in 0..MaxEncodings}

RECURSIVE encodeURIComponent(_)
\* encodeURIComponent on the model's characters: letters, digits and
\* - _ . ! ~ * ' ( ) stay, the others become their escape
encodeURIComponent(s) ==
  IF s = <<>> THEN <<>>
  ELSE (CASE Head(s) = " " -> <<"%","2","0">>
          [] Head(s) = "=" -> <<"%","3","D">>
          [] Head(s) = "%" -> <<"%","2","5">>
          [] Head(s) = "&" -> <<"%","2","6">>
          [] OTHER -> <<Head(s)>>)
       \o encodeURIComponent(Tail(s))

RECURSIVE EncodeRounds(_, _)
\* the name s as a reference spells it after k rounds of encoding
EncodeRounds(s, k) ==
  IF k = 0 THEN s ELSE EncodeRounds(encodeURIComponent(s), k - 1)

\* filename.lastIndexOf(c), counted from 1; 0 when c does not occur
LastIndexOf(s, c) ==
  IF \E i \in DOMAIN s : s[i] = c
  THEN CHOOSE i \in DOMAIN s : s[i] = c /\ \A j \in DOMAIN s : s[j] = c => j <= i
  ELSE 0

\* removeAfterExtension: the name cut at the first white space or "%" that
\* follows its last dot
removeAfterExtension(filename) ==
  LET lastDotIndex == LastIndexOf(filename, ".")
      extension == SubSeq(filename, lastDotIndex, Len(filename))
      found == {i \in DOMAIN extension : extension[i] \in WhiteSpace \cup {"%"}}
      endIndex == CHOOSE i \in found : \A j \in found : i <= j
  IN IF lastDotIndex = 0 THEN filename
     ELSE IF found = {} THEN filename
          ELSE SubSeq(filename, 1, lastDotIndex - 1)
                 \o SubSeq(extension, 1, endIndex - 1)

\* filename.replace(/(%20)*(%3D|\s*=\s*)[0-9x]+$/i, ''): the name up to
\* the leftmost position from which the rest matches the pattern as a
\* whole, letters in either case
RemoveSizeAnnotation(s) ==
  LET RECURSIVE StripEncodedSpaces(_)
      \* (%20)*
      StripEncodedSpaces(t) ==
        IF IsPrefix(<<"%","2","0">>, t)
        THEN StripEncodedSpaces(SubSeq(t, 4, Len(t)))
        ELSE t
      \* what follows (%20)*(%3D|\s*=\s*) in t, empty when t has no such start
      AfterEquals(t) ==
        LET afterSpaces == StripEncodedSpaces(t)
        IN IF IsPrefix(<<"%","3","D">>, afterSpaces)
                \/ IsPrefix(<<"%","3","d">>, afterSpaces)
           THEN SubSeq(afterSpaces, 4, Len(afterSpaces))
           ELSE IF TrimLeft(afterSpaces) # <<>>
                     /\ Head(TrimLeft(afterSpaces)) = "="
                THEN TrimLeft(Tail(TrimLeft(afterSpaces)))
                ELSE <<>>
      IsSizeAnnotation(t) ==
        /\ AfterEquals(t) # <<>>
        /\ \A i \in DOMAIN AfterEquals(t) :
             AfterEquals(t)[i]
               \in {"0","1","2","3","4","5","6","7","8","9","x","X"}
      starts == {i \in DOMAIN s : IsSizeAnnotation(SubSeq(s, i, Len(s)))}
  IN IF starts = {} THEN s
     ELSE SubSeq(s, 1, (CHOOSE i \in starts : \A j \in starts : i <= j) - 1)

\* cleaned.replace(/-[0-9a-f]{8}-[0-9a-f]{4}-[0-9a-f]{4}-[0-9a-f]{4}-[0-9a-f]{12}$/i, '')
RemoveGuidSuffix(s) ==
  LET n == Len(Guid) + 1
      tail == SubSeq(s, Len(s) - n + 1, Len(s))
      hexDigits == {"0","1","2","3","4","5","6","7","8","9","a","b","c","d",
                    "e","f","A","B","C","D","E","F"}
      \* the positions of the hyphens in -8-4-4-4-12
      hyphens == {1, 10, 15, 20, 25}
  IN IF /\ Len(s) >= n
        /\ \A i \in 1..n : IF i \in hyphens THEN tail[i] = "-"
                           ELSE tail[i] \in hexDigits
     THEN SubSeq(s, 1, Len(s) - n)
     ELSE s

\* cleanAttachmentFilename
cleanAttachmentFilename(filename) ==
  IF filename = <<>> THEN <<>>
  ELSE trim(decodeUrlEncoded(
              RemoveGuidSuffix(RemoveSizeAnnotation(removeAfterExtension(filename)))))

\* the HTML generator cleans the name of a reference
CleanFilename ==
  /\ pc = "clean"
  /\ Returns(cleanAttachmentFilename(
               EncodeRounds(input.base \o input.guid \o input.extension
                              \o input.hint, input.rounds)),
             "cleaned")

(***************************************************************************)
(* convertMarkdownToConfluenceHtml on one image reference of a page.  The  *)
(* text of the reference is followed through the passes in their order:    *)
(* processConfluenceLinks (three replacements, then convertLinks),         *)
(* convertImages, marked, convertAttachmentLinksToImageMacros.  A fragment *)
(* is the shape the reference has between two passes:                      *)
(*   "![[]]"      ![[url]] or ![[url|text]]                                *)
(*   "![]()"      ![text](url)                                             *)
(*   "!<a>"       !<a href="url" target="_blank">text</a>                  *)
(*   "<ac:image>" an image macro: text is ac:alt, url the attachment it    *)
(*                shows, by ri:attachment or by the ri:url of its download *)
(*   "<ri:url>"   an image macro on an external URL                        *)
(*   "error"      the error paragraph the conversion returns on a throw    *)
(***************************************************************************)
\* attached: the file is an attachment of the page in the target space
ImageReferences ==
  {[form |-> f, name |-> n, width |-> w, alt |-> a, attached |-> t] :
     f \in {"wiki", "attachments", "relative"},
     n \in {<<"l","o","g","o",".","p","n","g">>,
            <<"m","y","%","2","0","p","i","c",".","p","n","g">>,
            <<"d","i","a","g","r","a","m",".","s","v","g">>},
     w \in {<<>>, <<"3","0","0">>, <<"7","5","0">>},
     a \in {<<>>, <<"L","o","g","o">>},
     t \in BOOLEAN}

AttachmentsPrefix == <<"/",".","a","t","t","a","c","h","m","e","n","t","s","/">>

Fragment(shape, text, url, width, ref) ==
  [shape |-> shape, text |-> text, url |-> url, width |-> width, ref |-> ref]

\* the reference as the Markdown file spells it: ![[name=300x]] or
\* ![[name=300x|alt]], ![alt](/.attachments/name =300x), ![alt](name=300x)
SourceFragment(r) ==
  LET hint == IF r.width = <<>> THEN <<>> ELSE <<"=">> \o r.width \o <<"x">>
  IN CASE r.form = "wiki" ->
            Fragment("![[]]", r.alt, r.name \o hint, <<>>, "none")
       [] r.form = "attachments" ->
            Fragment("![]()", r.alt,
                     AttachmentsPrefix \o r.name
                       \o (IF hint = <<>> THEN <<>> ELSE <<" ">> \o hint),
                     <<>>, "none")
       [] r.form = "relative" ->
            Fragment("![]()", r.alt, r.name \o hint, <<>>, "none")

\* s.indexOf(sub), counted from 1; 0 when sub does not occur
FirstIndexOf(s, sub) ==
  LET hits == {i \in 1..(Len(s) - Len(sub) + 1) :
                 SubSeq(s, i, i + Len(sub) - 1) = sub}
  IN IF hits = {} THEN 0 ELSE CHOOSE i \in hits : \A j \in hits : i <= j

Includes(s, sub) == FirstIndexOf(s, sub) # 0

\* s.split(sep)[0]
PartBefore(s, sep) ==
  IF Includes(s, sep) THEN SubSeq(s, 1, FirstIndexOf(s, sep) - 1) ELSE s

\* s.split(sep)[1], for an s that includes sep
PartAfter(s, sep) ==
  PartBefore(SubSeq(s, FirstIndexOf(s, sep) + Len(sep), Len(s)), sep)

\* s.split("/").pop()
LastSegment(s) == SubSeq(s, LastIndexOf(s, "/") + 1, Len(s))

\* the URL a page link is rewritten to: the page when the map has its
\* mapped title, the anchor #title otherwise
LinkTarget(pageName, pageIdMap0) ==
  LET confluenceTitle == mapWikiTitleToConfluence(pageName)
      targetPageId == MapGet(pageIdMap0, confluenceTitle)
  IN IF targetPageId # 0
     THEN <<"h","t","t","p","s",":","/","/","c","/","w","i","k","i","/",
            "p","a","g","e","s","/", ToString(targetPageId)>>
     ELSE <<"#">> \o confluenceTitle

\* first and second replacement of processConfluenceLinks:
\* /\[\[([^|\]]+)\|([^\]]+)\]\]/g and /\[\[([^\]|]+)\]\]/g
ReplaceWikiLinks(f, pageIdMap0) ==
  IF f.shape = "![[]]"
  THEN Fragment("![]()", IF f.text # <<>> THEN f.text ELSE f.url,
                LinkTarget(f.url, pageIdMap0), <<>>, "none")
  ELSE f

\* third replacement: /\[([^\]]+)\]\(([^)]+)\)/g
ReplaceMarkdownLinks(f, pageIdMap0) ==
  LET pageName == LastSegment(f.url)
      known == MapGet(pageIdMap0, mapWikiTitleToConfluence(pageName)) # 0
      http == IsPrefix(<<"h","t","t","p",":","/","/">>, f.url)
                \/ IsPrefix(<<"h","t","t","p","s",":","/","/">>, f.url)
  IN IF f.shape = "![]()" /\ f.text # <<>>
     THEN IF http
          THEN IF Includes(f.url, <<"_","w","i","k","i">>) /\ known
               THEN [f EXCEPT !.url = LinkTarget(pageName, pageIdMap0)]
               ELSE f
          ELSE IF IsPrefix(<<"/">>, f.url)
                    /\ ~Includes(f.url, <<".","a","t","t","a","c","h","m","e","n","t","s">>)
               THEN [f EXCEPT !.url = LinkTarget(pageName, pageIdMap0)]
               ELSE f
     ELSE f

\* convertLinks: every [text](url) becomes an anchor element
convertLinks(f) ==
  IF f.shape = "![]()" /\ f.text # <<>>
  THEN [f EXCEPT !.shape = "!<a>"]
  ELSE f

\* createConfluenceImageMacro and createConfluenceImageMacroSync: the width
\* is taken from name=300x; byBlobUrl: getBlobUrl found the attachment
ImageMacro(attachmentName, altText, byBlobUrl) ==
  LET hasWidthParameter ==
        /\ Includes(attachmentName, <<"=">>)
        /\ Includes(PartAfter(attachmentName, <<"=">>), <<"x">>)
      cleanAttachmentName ==
        IF hasWidthParameter THEN trim(PartBefore(attachmentName, <<"=">>))
        ELSE attachmentName
      width ==
        IF hasWidthParameter
        THEN PartBefore(trim(PartAfter(attachmentName, <<"=">>)), <<"x">>)
        ELSE <<>>
  IN Fragment("<ac:image>", altText, cleanAttachmentName, width,
              IF byBlobUrl THEN "url" ELSE "attachment")

\* createConfluenceImageMacro: the attachments of the page are asked for
\* one titled as the clean name
createConfluenceImageMacro(attachmentName, altText, attachedTitles) ==
  LET sync == ImageMacro(attachmentName, altText, FALSE)
  IN [sync EXCEPT !.ref = IF sync.url \in attachedTitles THEN "url"
                          ELSE "attachment"]

\* processImageMatch(match, alt, src) of convertImages
processImageMatch(alt, originalSrc, attachedTitles) ==
  LET spaced == Includes(originalSrc, <<" ","=">>)
      sized == Includes(originalSrc, <<"=">>)
      src == IF spaced THEN PartBefore(originalSrc, <<" ","=">>)
             ELSE IF sized THEN PartBefore(originalSrc, <<"=">>)
                  ELSE originalSrc
      sizeInfo == IF spaced THEN trim(PartAfter(originalSrc, <<" ","=">>))
                  ELSE IF sized THEN trim(PartAfter(originalSrc, <<"=">>))
                       ELSE <<>>
      decoded == decodeURIComponent(LastSegment(src))
      attachmentName == decoded.value
      attachmentNameWithSize ==
        IF sizeInfo # <<>> THEN attachmentName \o <<"=">> \o sizeInfo
        ELSE attachmentName
  IN IF IsPrefix(<<"h","t","t","p",":","/","/">>, src)
          \/ IsPrefix(<<"h","t","t","p","s",":","/","/">>, src)
     THEN Fragment("<ri:url>", <<>>, src, <<>>, "url")
     ELSE IF decoded.threw THEN Fragment("error", <<>>, <<>>, <<>>, "none")
          ELSE createConfluenceImageMacro(
                 attachmentNameWithSize,
                 IF alt # <<>> THEN alt ELSE attachmentName, attachedTitles)

\* convertImages: /!\[([^\]]*)\]\(([^)]+)\)/g, then the wiki-style image
\* references /!\[\[([^|\]]+)(?:\|[^\]]*)?]]/g
convertImages(f, attachedTitles) ==
  CASE f.shape = "![]()" -> processImageMatch(f.text, f.url, attachedTitles)
    [] f.shape = "![[]]" ->
         IF decodeURIComponent(LastSegment(f.url)).threw
         THEN Fragment("error", <<>>, <<>>, <<>>, "none")
         ELSE createConfluenceImageMacro(
                decodeURIComponent(LastSegment(f.url)).value,
                decodeURIComponent(LastSegment(f.url)).value, attachedTitles)
    [] OTHER -> f

\* convertAttachmentLinksToImageMacros: the anchors whose href matches
\* (\/\.attachments\/[^"']+\.(png|jpg|jpeg|gif|svg)[^"']*)
convertAttachmentLinksToImageMacros(f) ==
  LET IsImageAttachmentPath(path) ==
        /\ IsPrefix(AttachmentsPrefix, path)
        /\ \E ext \in {<<"p","n","g">>, <<"j","p","g">>, <<"j","p","e","g">>,
                        <<"g","i","f">>, <<"s","v","g">>} :
             \E i \in (Len(AttachmentsPrefix) + 2)..Len(path) :
               /\ i + Len(ext) <= Len(path)
               /\ SubSeq(path, i, i + Len(ext)) = <<".">> \o ext
      decoded == decodeURIComponent(LastSegment(f.url))
      sizeParameter ==
        IF Includes(f.url, <<"=">>) THEN PartAfter(f.url, <<"=">>)
        ELSE IF Includes(f.text, <<"=">>) THEN trim(PartAfter(f.text, <<"=">>))
             ELSE <<>>
      filenameWithSize ==
        IF sizeParameter # <<>> THEN decoded.value \o <<"=">> \o sizeParameter
        ELSE decoded.value
  IN IF f.shape = "!<a>" /\ IsImageAttachmentPath(f.url)
     THEN IF decoded.threw THEN f
          ELSE ImageMacro(filenameWithSize, f.text, FALSE)
     ELSE f

\* convertMarkdownToConfluenceHtml on the reference r; marked leaves the
\* anchor elements and the macros as they are
ConvertImageReference(r, pageIdMap0) ==
  LET attachedTitles == IF r.attached THEN {DecodeOrKeep(r.name)} ELSE {}
      linked == convertLinks(
                  ReplaceMarkdownLinks(
                    ReplaceWikiLinks(SourceFragment(r), pageIdMap0), pageIdMap0))
  IN convertAttachmentLinksToImageMacros(convertImages(linked, attachedTitles))

\* the content pass converts a page with the reference
ConvertImage ==
  /\ pc = "convert"
  /\ Returns(ConvertImageReference(input, pagesIdMap), "converted")

(***************************************************************************)
(* pageNameFixer.generateFixedPageName on a title of the wiki, as it is or *)
(* as an earlier fix prefixed it, for a PROJECT_NAME of the environment.   *)
(***************************************************************************)
FixedNameInputs ==
  UNION { { [title |-> TitlePool[i], project |-> p],
            [title |-> p \o <<" ", "-", " ">> \o TitlePool[i], project |-> p] } :
          i \in DOMAIN TitlePool, p \in {projectName, <<"Q", "&", "A">>} }

\* the name fixer derives the fixed title
FixPageName ==
  /\ pc = "fixName"
  /\ Returns(generateFixedPageName(input.title, input.project), "fixedName")

\* operations for retryWithBackoff: each invocation returns, throws an error
\* of the client (.status only), or throws an error carrying .response
RetryInputs ==
  [1..MaxCalls -> {[thrown |-> FALSE, status |-> 0, responseStatus |-> 0],
                   [thrown |-> TRUE, status |-> 429, responseStatus |-> 0],
                   [thrown |-> TRUE, status |-> 0, responseStatus |-> 429],
                   [thrown |-> TRUE, status |-> 0, responseStatus |-> 500]}]

\* retryWithBackoff(fn) with the default retries and delay
RetryOperation ==
  /\ pc = "retry"
  /\ Returns(retryWithBackoff(input, RetryLimit, 1000), "retried")

(***************************************************************************)
(* The specification of the functions: one of them is applied to an        *)
(* argument of its bounded set.                                            *)
(***************************************************************************)
InitFunctions ==
  /\ InitIdle
  /\ output = <<>>
  /\ \/ input \in DirectoryInputs /\ pc = "parse"
     \/ input \in TreeInputs /\ pc = "parseTree"
     \/ input \in ArtifactNames /\ pc = "clean"
     \/ input \in ImageReferences /\ pc = "convert"
     \/ input \in FixedNameInputs /\ pc = "fixName"
     \/ input \in RetryInputs /\ pc = "retry"

NextFunctions ==
  \/ ParseDirectoryListing
  \/ ParseTree
  \/ CleanFilename
  \/ ConvertImage
  \/ FixPageName
  \/ RetryOperation

SpecFunctions == InitFunctions /\ [][NextFunctions]_vars

(***************************************************************************)
(* Properties of the migration run (Spec).                                 *)
(***************************************************************************)

\* C1: every createPage call is made with a parentId the target knows; for
\* a page below another page of the wiki it is an id createOrUpdatePage
\* returned for that parent page, for a top-level page the configured
\* parent; and no page is attempted in a pass before its parent succeeded
\* in that pass.
C1_ParentIdBeforeChild ==
  /\ \A c \in createCalls :
       /\ c.parentId \in {p.id : p \in confPages}
       /\ IF tree[c.node].parent = 0
          THEN c.parentId = ParentPageId
          ELSE <<tree[c.node].parent, c.parentId>> \in returnedIds
  /\ \A ph \in {1, 2} : \A n \in attempted[ph] :
       tree[n].parent # 0 => tree[n].parent \in succeeded[ph]

\* a chain A -> B -> C whose three pages were created in the placeholder
\* pass, C below the id returned for B and B below the id returned for A
C1_Witness ==
  \E a, b, c \in Nodes :
    /\ tree[a].parent = 0 /\ tree[b].parent = a /\ tree[c].parent = b
    /\ \E ca, cb, cc \in createCalls :
         /\ ca.node = a /\ cb.node = b /\ cc.node = c
         /\ ca.phase = 1 /\ cb.phase = 1 /\ cc.phase = 1
         /\ <<a, cb.parentId>> \in returnedIds
         /\ <<b, cc.parentId>> \in returnedIds
         /\ c \in succeeded[1]

\* C2: when the content pass starts after a placeholder pass without any
\* failure, the title -> id map has an entry for every page under the key
\* link resolution looks up for it, mapWikiTitleToConfluence of its name.
C2_EveryPageIdKnown ==
  (pc = "phase2" /\ failures = 0) =>
    \A n \in Nodes :
      MapGet(pagesIdMap, mapWikiTitleToConfluence(tree[n].title)) # 0

\* C3: a page of the content pass none of whose calls failed is published
\* by a successful update, and every link of its body to a page without an
\* entry in the title -> id map is a same-document anchor.
C3_UnresolvedLinkIsAnchor ==
  \A n \in attempted[2] :
    <<2, n>> \notin apiFailed =>
      /\ n \in succeeded[2]
      /\ \E u \in updateCalls : u.node = n /\ u.phase = 2 /\ u.ok
      /\ \A l \in rendered[n] :
           MapGet(pagesIdMap, mapWikiTitleToConfluence(l.name)) = 0 =>
             l.kind = "anchor"

\* C4: a failing page ends neither pass: when a pass is over, every page
\* whose ancestors all succeeded in that pass was attempted in it.
C4_FailureSkipsOnlySubtree ==
  /\ pc \in {"phase2", "done"} =>
       \A n \in Nodes : Ancestors(n) \subseteq succeeded[1] => n \in attempted[1]
  /\ pc = "done" =>
       \A n \in Nodes : Ancestors(n) \subseteq succeeded[2] => n \in attempted[2]

\* the run is over, a page failed in the placeholder pass and a later
\* sibling of it was still published in both passes
C4_Witness ==
  /\ pc = "done"
  /\ \E n, m \in Nodes :
       /\ n < m /\ tree[n].parent = tree[m].parent
       /\ n \in attempted[1] \ succeeded[1]
       /\ m \in succeeded[1] \cap succeeded[2]

\* C7: createConfluencePages starts only when no two pages of the wiki are
\* published under the same title and no page's title is the title of a
\* page the target space already has.
C7_PublishOnlyWithoutCollision ==
  (pc = "phase1" /\ attempted[1] = {}) =>
    /\ \A n, m \in Nodes :
         n # m => DecodeOrKeep(tree[n].title) # DecodeOrKeep(tree[m].title)
    /\ \A n \in Nodes : getPageByTitle(confPages, tree[n].title) = 0

\* C8: when the process exits because of conflicts, .validation-state.json
\* holds exactly the records that were found.
C8_ConflictsPersistedBeforeExit ==
  pc = "exitConflicts" => validationFile = queue

\* C9: as long as authentication has not succeeded no page is created or
\* updated and no attachment is uploaded, and the target space is the one
\* the run found.
C9_NoMutationWithoutAuth ==
  ~authOk =>
    /\ createCalls = {} /\ updateCalls = {} /\ postCalls = {}
    /\ confPages \in InitialSpaces /\ attachments = {}

\* the run ended on a failed authentication check
C9_Witness == pc = "exitAuth" /\ ~authOk

\* C11: when an attachment upload of a page threw in the content pass, the
\* updatePage call of that page was still issued in that pass, and unless a
\* page call of its own failed the page is published with converted content.
C11_UploadFailureKeepsPage ==
  \A e \in uploadErrors :
    e[1] = 2 =>
      /\ \E u \in updateCalls : u.node = e[2] /\ u.phase = 2
      /\ (\A u \in updateCalls : (u.node = e[2] /\ u.phase = 2) => u.ok)
           => (e[2] \in succeeded[2] /\ rendered[e[2]] # {})

\* an upload threw in the content pass and the page was updated all the same
C11_Witness ==
  \E e \in uploadErrors :
    /\ e[1] = 2
    /\ e[2] \in succeeded[2]
    /\ \E u \in updateCalls : u.node = e[2] /\ u.phase = 2 /\ u.ok

\* C12: when a call of the publication answered HTTP 429, the operation
\* retryWithBackoff wraps, createConfluencePages, was invoked again before
\* the run ended.
C12_RateLimitRetried ==
  (pc = "done" /\ rateLimited # {}) => invocations > 1

\* C18: the title mapping of the validator, sanitizeTitle, and the one of
\* the link resolution, mapWikiTitleToConfluence, give the same output for
\* every title, and that output is the key under which the id of the page
\* is stored in the title -> id map.
C18_MappedTitleIsKey ==
  /\ \A n \in Nodes :
       sanitizeTitle(tree[n].title) = mapWikiTitleToConfluence(tree[n].title)
  /\ \A e \in pagesIdMap :
       \E n \in Nodes : e[1] = mapWikiTitleToConfluence(tree[n].title)

\* C20: link resolution with the title -> id map of the run turns every
\* internal link of the three dialects ([[Page|Text]], [[Page]], Markdown
\* link to a _wiki URL) into a direct link to the page when the map has the
\* target title, and into the anchor #title when it has not.
C20_DirectLinkOrAnchor ==
  \A n \in Nodes :
    \A l \in processConfluenceLinks(n, pagesIdMap) :
      l.dialect \in {"wikiText", "wikiSimple", "azureUrl"} =>
        LET title == mapWikiTitleToConfluence(l.name)
        IN IF MapGet(pagesIdMap, title) # 0
           THEN l.kind = "direct" /\ l.id = MapGet(pagesIdMap, title)
           ELSE l.kind = "anchor" /\ l.anchor = title

(***************************************************************************)
(* Properties of the run that is started again (SpecRerun).                *)
(***************************************************************************)

\* C13: the run started again after a run that stopped between the passes,
\* with a successful authentication and without any failing call, does not
\* exit on conflicts: it goes on to the placeholder pass.
C13_RerunReachesPhase1 ==
  (run = 2 /\ authOk /\ failures = 0) => pc # "exitConflicts"

(***************************************************************************)
(* Properties of migrate --single (SpecSingle).                            *)
(***************************************************************************)

\* C14: in a run with --single, createPage and updatePage are issued only
\* for the page the option names.
C14_OnlySinglePage ==
  singlePage # 0 =>
    /\ \A c \in createCalls : c.node = singlePage
    /\ \A u \in updateCalls : u.node = singlePage

(***************************************************************************)
(* Properties of the parsers on one directory (SpecParse).                 *)
(***************************************************************************)

\* C15: with a .order file that lists some of the entries of a directory,
\* the sibling pages are the listed entries in the listed order, followed by
\* the entries not listed in alphabetical order of their titles.
C15_ListedThenAlphabetical ==
  pc = "parsed" =>
    /\ Len(output) = Len(input.readdir)
    /\ SubSeq(output, 1, Len(input.order)) = input.order
    /\ \A j, k \in (Len(input.order) + 1)..Len(output) :
         j < k => LocaleRank[output[j]] < LocaleRank[output[k]]

(***************************************************************************)
(* Properties of the parsed tree (SpecTree).                               *)
(***************************************************************************)

\* C16: when a directory holds both the directory Foo with the page Bar.md
\* and the file Foo.md, the parsed tree has exactly one page titled Foo, its
\* only child is Bar and its content is the content of Foo.md.
C16_DirectoryAndFileMerged ==
  pc = "parsedTree" =>
    \A e \in Entries :
      (input.dir[e] = "pages" /\ input.file[e] = "text") =>
        LET titled == {i \in DOMAIN output :
                         output[i].title \in {EntryTitles[e],
                                              DecodeOrKeep(EntryTitles[e])}}
        IN /\ Cardinality(titled) = 1
           /\ \A i \in titled : /\ output[i].children = <<BarTitle>>
                                /\ output[i].contentOf = e

(***************************************************************************)
(* Properties of the attachment file names (SpecClean).                    *)
(***************************************************************************)

\* C17: cleaning an attachment file name a second time changes nothing:
\* cleanFileName(cleanFileName(x)) = cleanFileName(x) for every name with a
\* size hint, a GUID, or one or two rounds of URL-encoding.
C17_CleanIsFixedPoint ==
  pc = "cleaned" => cleanAttachmentFilename(output) = output

(***************************************************************************)
(* Properties of the conversion of image references (SpecImage).           *)
(***************************************************************************)

\* C19: a wiki-style image reference with a size hint, ![[logo.png=300x]],
\* to a file attached to the page is converted to an image macro with that
\* width and that file name; it is not rewritten as a link to a wiki page.
C19_WikiImageBecomesMacro ==
  (pc = "converted" /\ input.form = "wiki" /\ input.alt = <<>>
     /\ input.width # <<>> /\ input.attached) =>
    /\ output.shape = "<ac:image>"
    /\ output.width = input.width
    /\ output.url = DecodeOrKeep(input.name)

\* C28: retryWithBackoff invokes the operation at most 4 times, waits
\* 1000 * 2^(k-1) ms before the k-th retry, invokes it again only after it
\* threw a rate-limit error, and settles with what the last invocation
\* returned or threw.
C28_RetryBounded ==
  pc = "retried" =>
    /\ output.calls <= 4
    /\ Len(output.waits) = output.calls - 1
    /\ \A k \in 1..Len(output.waits) : output.waits[k] = 1000 * 2^(k - 1)
    /\ \A k \in 1..(output.calls - 1) :
         input[k].thrown /\ 429 \in {input[k].status, input[k].responseStatus}
    /\ output.settled = input[output.calls]

\* the operation kept throwing the rate-limit error: three retries were
\* made and the fourth error was rethrown
C28_Witness ==
  /\ pc = "retried"
  /\ output.calls = 4
  /\ output.waits = <<1000, 2000, 4000>>
  /\ output.settled.thrown

(***************************************************************************)
(* Properties of the name fixer (SpecFunctions).                           *)
(***************************************************************************)

\* C23: the fixed title generateFixedPageName derived is left unchanged
\* when a fixed title is derived from it again for the same project name.
C23_FixedNameIsFixedPoint ==
  pc = "fixedName" => generateFixedPageName(output, input.project) = output

(***************************************************************************)
(* Properties of the conflict resolution cycle (SpecNames).                *)
(***************************************************************************)

\* C5: for a wiki with exactly two pages titled Setup and no page of that
\* title in the target space, the first validation returns exactly one
\* record for that title: duplicate within the wiki, for the page that
\* comes second in the traversal.
C5_SecondSetupFlagged ==
  LET setup == TitlePool[2]
      twice == { n \in Nodes : tree[n].title = setup }
      order == Preorder(Children(0))
      second == CHOOSE n \in twice :
                  \E i, j \in 1..Len(order) :
                    i < j /\ order[j] = n /\ order[i] \in twice
      IsSetup(d) == d.title = setup
  IN (/\ Cardinality(twice) = 2
      /\ getPageByTitle(confPages, setup) = 0
      /\ fixInput = <<>>
      /\ pc \in {"exitConflicts", "phase1"})
     => SelectSeq(queue, IsSetup) =
          <<DuplicateRecord(setup, InWikiReason, second, 0)>>

\* C6: after the name fixer ran on a queue that holds one record, a
\* duplicate within the wiki, and no page of the wiki has the title of a
\* page of the target space, the validation of the next run on the same
\* wiki finds no conflict.
C6_RevalidationClean ==
  (/\ Len(fixInput) = 1
   /\ fixInput[1].reason = InWikiReason
   /\ \A n \in Nodes : getPageByTitle(confPages, tree[n].title) = 0
   /\ pc \in {"validate", "exitConflicts", "phase1"})
  => queue = <<>>

(***************************************************************************)
(* Properties of uploadAttachment (SpecUpload).                            *)
(***************************************************************************)

\* C10: an upload of a file name the page already has an attachment for
\* issues no POST and does not fail.
C10_ExistingNotReposted ==
  (uploads > 0 /\ lastUpload.existed) =>
    ~lastUpload.posted /\ ~lastUpload.threw

(***************************************************************************)
(* Properties of the run over a wiki with broken content (SpecContent).    *)
(***************************************************************************)

C22_FixedTitlePublished ==
  \A n \in Nodes :
    HasKey(fixesFile, sanitizeTitle(tree[n].title)) =>
      /\ \A i \in DOMAIN queue : queue[i].path # n
      /\ \A c \in createCalls :
           c.node = n => c.title = MapGet(fixesFile, sanitizeTitle(tree[n].title))

\* C24: the re-check of a persisted queue writes back exactly the records
\* whose conflict still holds (a title of the wiki that a page of the
\* target space has, or that two pages of the wiki have), in their order,
\* and goes on to the validation only when none is left.
C24_StaleRecordsPruned ==
  [][(pc = "revalidate" /\ Len(validationFile) > 0) =>
       LET Holds(d) ==
             /\ findPageInStructure(Titles, d.title)
             /\ IF d.reason = InTargetReason
                THEN getPageByTitle(confPages, d.title) # 0
                ELSE countPagesWithTitle(Titles, d.title) > 1
       IN /\ validationFile' = SelectSeq(validationFile, Holds)
          /\ pc' = "validate" <=> validationFile' = <<>>]_vars

\* C26: createPage is never issued for a title the target space already
\* has a page of, also when the title lookup fails.
C26_NoCreateForExistingTitle ==
  [][\A c \in createCalls' \ createCalls :
       \A p \in confPages : p.title # c.title]_vars

\* C27: a page whose createOrUpdatePage threw in a pass (the catch block of
\* the loop logged it: attempted and not succeeded) has its whole subtree
\* skipped in that pass: no descendant is processed in it and no create or
\* update call of the pass is for a descendant.
C27_FailedSubtreeSkipped ==
  [][\A ph \in {1, 2} :
       LET failed == attempted[ph] \ succeeded[ph]
       IN /\ \A d \in attempted'[ph] \ attempted[ph] :
               Ancestors(d) \cap failed = {}
          /\ \A c \in (createCalls' \ createCalls) \cup (updateCalls' \ updateCalls) :
               c.phase = ph => Ancestors(c.node) \cap failed = {}
          /\ (postCalls' # postCalls /\ pc = (IF ph = 1 THEN "phase1" ELSE "phase2")) =>
               todo # <<>> /\ Ancestors(Head(todo)[1]) \cap failed = {}]_vars

\* a pass is over with a page that failed in it and has a child, while a
\* later sibling of the page was processed in the pass
C27_Witness ==
  /\ pc = "done"
  /\ \E n, d, m \in Nodes :
       /\ tree[d].parent = n
       /\ n < m /\ tree[n].parent = tree[m].parent
       /\ n \in attempted[2] \ succeeded[2]
       /\ d \notin attempted[2]
       /\ m \in succeeded[2]

\* C29: when the placeholder pass processes a page whose title a page of
\* the target space already has, it reuses the id of that page and issues
\* no createPage, updatePage or attachment upload: the space is unchanged.
C29_ExistingPageUntouched ==
  [][(pc = "phase1" /\ attempted'[1] # attempted[1]) =>
       \A p \in confPages :
         p.title = DecodeOrKeep(tree[Head(todo)[1]].title) =>
           /\ createCalls' = createCalls
           /\ updateCalls' = updateCalls
           /\ postCalls' = postCalls
           /\ confPages' = confPages
           /\ attachments' = attachments
           /\ <<Head(todo)[1], p.id>> \in returnedIds']_vars

\* C30: validatePages reports every page without a fix entry whose title a
\* page of the target space has or an earlier page of the traversal has,
\* also below a page that was flagged or skipped.
C30_EveryConflictReported ==
  [][(pc = "validate" /\ pc' # "validate") =>
       LET order == Preorder(Children(0))
           Conflicts(k) ==
             \/ \E p \in confPages : p.title = tree[order[k]].title
             \/ \E j \in 1..(k - 1) : tree[order[j]].title = tree[order[k]].title
       IN \A k \in DOMAIN order :
            (Conflicts(k) /\ ~HasKey(fixesFile, sanitizeTitle(tree[order[k]].title)))
              => \E i \in DOMAIN queue' : queue'[i].path = order[k]]_vars

(***************************************************************************)
(* Properties of the loops under the event loop (SpecSequential).          *)
(***************************************************************************)

====
